---- MODULE Spec2Model ----
(***************************************************************************)
(* A model of the starport script bindings:                                *)
(*   - base.ConfigurableModule[string], the configuration store every      *)
(*     binding owns (src/base/module.go), together with the constructors   *)
(*     of the email, llm and charm bindings that populate it;              *)
(*   - the llm binding's chat and draw calls (src/llm/openai.go);          *)
(*   - the email binding's send call (src/email/resend.go);                *)
(*   - the clients the llm, cfs and ckv bindings construct and cache        *)
(*     (src/llm/openai.go, src/charm/cfs/fs.go, src/charm/ckv/kv.go).       *)
(* Each part has its own specification over the shared variables; the     *)
(* variables of the other parts stay at their idle values.                 *)
(***************************************************************************)
EXTENDS Integers, Sequences, FiniteSets, TLC

VARIABLES
    binding,    \* which package owns the store: "base", "email", "llm", "charm"
    ctor,       \* the constructor that built the instance
    configs,    \* ConfigurableModule.configs: map[string]ConfigGetter[string]
    source,     \* the value each injected producer function yields right now
    loaded,     \* LoadModule has been called
    exposed,    \* keys k whose set_<k> is in the module returned by LoadModule
    ret,        \* outcome of the latest operation on the store
    lastRead,   \* outcome of the latest earlier GetConfig with no rebinding since
    cli,        \* llm Module.cli: the injected provider client, or nil
    pc,         \* where the script call in progress stands
    call,       \* the arguments of the script call in progress
    req,        \* the request the handler built and the client it acquired
    loopI,      \* the retry loop's counter i
    err,        \* the handler's err variable
    resp,       \* the handler's resp variable
    trace,      \* what the provider answered to each invocation of this call
    out,        \* what the call returned to the script
    made,       \* the clients getClient and getDBClient constructed, in order
    cf,         \* cfs Module.cf: the cached filesystem client, or nil
    dbs,        \* ckv Module.dbs: map[string]*kv.KV
    scriptMsgs  \* the records message returned to the script, with their arguments

callVars == <<cli, pc, call, req, loopI, err, resp, trace, out, made, cf, dbs, scriptMsgs>>

vars == <<binding, ctor, configs, source, loaded, exposed, ret, lastRead,
          cli, pc, call, req, loopI, err, resp, trace, out, made, cf, dbs, scriptMsgs>>

----------------------------------------------------------------------------
(* Bounds *)

NumKeys == 2        \* keys a host uses on a bare ConfigurableModule
NumVals == 2        \* distinct string values
NumProducers == 1   \* distinct injected producer functions
MaxArgs == 2        \* positional arguments passed to a generated setter
MaxClients == 2     \* clients an instance constructs before the model stops it

----------------------------------------------------------------------------
(* Values *)

ValueName == <<"", "a", "b", "c">>
Values == {ValueName[i] : i \in 1..NumVals}

BaseKeyName == <<"k1", "k2", "k3", "k4">>
BaseKeys == {BaseKeyName[i] : i \in 1..NumKeys}

Producers == 1..NumProducers

\* var zero T, for T = string
ZeroValue == ""

\* strconv.Itoa on the uint16 ports of NewCommonModuleWithConfig
Digit == <<"0", "1", "2", "3", "4", "5", "6", "7", "8", "9">>

RECURSIVE Itoa(_)
Itoa(n) == IF n < 10 THEN Digit[n + 1] ELSE Itoa(n \div 10) \o Digit[(n % 10) + 1]

\* the ports a host passes to NewCommonModuleWithConfig
CtorPorts == {0, 35353}

----------------------------------------------------------------------------
(* ConfigGetter[string]: nil, an injected producer, or a closure over a value *)

NilGetter == [kind |-> "nil", src |-> 0, val |-> ZeroValue]

FnGetter(p) == [kind |-> "fn", src |-> p, val |-> ZeroValue]

ConstGetter(v) == [kind |-> "const", src |-> 0, val |-> v]

\* getter(): a producer yields its current value, a closure its captured one
Invoke(g) == IF g.kind = "fn" THEN source[g.src] ELSE g.val

\* Script values handed to a generated setter, and dataconv.Unmarshal of them
StarString(v) == [type |-> "string", str |-> v]

StarInt == [type |-> "int", str |-> ZeroValue]

StarNone == [type |-> "NoneType", str |-> ZeroValue]

StarValues == {StarString(v) : v \in Values} \cup {StarInt, StarNone}

Unmarshal(v) ==
    CASE v.type = "string" -> [gotype |-> "string", str |-> v.str]
      [] v.type = "int" -> [gotype |-> "int", str |-> ZeroValue]
      [] OTHER -> [gotype |-> "nil", str |-> ZeroValue]

\* gv.(T) for T = string
IsT(gv) == gv.gotype = "string"

ArgLists == UNION {[1..n -> StarValues] : n \in 0..MaxArgs}

----------------------------------------------------------------------------
(* Bindings and their declared configuration keys *)

EmailKeys == {"resend_api_key", "sender_domain"}

LLMKeys == {"openai_provider", "openai_endpoint_url", "openai_api_key",
            "openai_gpt_model", "openai_dalle_model"}

CharmKeys == {"host", "data_dir", "key_file", "ssh_port", "http_port"}

DeclaredKeys(b) ==
    CASE b = "email" -> EmailKeys
      [] b = "llm" -> LLMKeys
      [] b \in {"charm", "cfs", "ckv"} -> CharmKeys
      [] OTHER -> BaseKeys

Bindings == {"email", "llm", "charm"}

EmptyConfigs == [k \in {} |-> NilGetter]

\* base.NewConfigurableModule: an empty map
NewConfigurableModule == EmptyConfigs

\* email.NewModule, llm.NewModule, core.NewCommonModule: nothing is bound
NewModule(b) == NewConfigurableModule

\* NewModuleWithConfig: SetConfigValue for every declared key
NewModuleWithConfig(b, vals) == [k \in DeclaredKeys(b) |-> ConstGetter(vals[k])]

\* NewModuleWithGetter: SetConfig for every declared key; a getter may be nil
NewModuleWithGetter(b, getters) == [k \in DeclaredKeys(b) |-> getters[k]]

\* the values a host passes to NewModuleWithConfig: strings, and for the charm
\* ports the decimal text of a uint16
CtorValues(b) ==
    {f \in [DeclaredKeys(b) -> Values \cup {Itoa(p) : p \in CtorPorts}] :
        \A k \in DeclaredKeys(b) :
            IF b = "charm" /\ k \in {"ssh_port", "http_port"}
            THEN f[k] \in {Itoa(p) : p \in CtorPorts}
            ELSE f[k] \in Values}

\* the getters a host passes to NewModuleWithGetter
CtorGetters(b) ==
    [DeclaredKeys(b) -> {NilGetter} \cup {FnGetter(p) : p \in Producers}]

----------------------------------------------------------------------------
(* Outcomes *)

Ret(op, k, g, as, v, e) ==
    [op |-> op, key |-> k, getter |-> g, args |-> as, val |-> v, err |-> e]

NoRet == Ret("new", "", NilGetter, <<>>, ZeroValue, "none")

NoRead == [key |-> "", val |-> ZeroValue, err |-> "no_read"]

\* the read that the coming operation pushes out of ret
PrevRead == IF ret.op = "GetConfig"
            THEN [key |-> ret.key, val |-> ret.val, err |-> ret.err]
            ELSE lastRead

----------------------------------------------------------------------------
(* Errors, script values and the idle state of a script call *)

NilErr == [type |-> "nil", status |-> 0, msg |-> ""]

\* errors.New / fmt.Errorf
Err(msg) == [type |-> "error", status |-> 0, msg |-> msg]

\* what go-openai returns: *APIError or *RequestError with the HTTP status,
\* or another error (network, context)
APIError(status) == [type |-> "APIError", status |-> status, msg |-> ""]

RequestError(status) == [type |-> "RequestError", status |-> status, msg |-> ""]

NetError == [type |-> "net", status |-> 0, msg |-> ""]

\* a starlark.Value returned to the script; GoNil is a nil interface value
Scalar(t, s) == [type |-> t, str |-> s, items |-> <<>>]

None == Scalar("None", "")

GoNil == Scalar("nil", "")

StarList(elems) == [type |-> "list", str |-> "", items |-> elems]

NilClient == [kind |-> "nil", key |-> "", url |-> ""]

\* Module.cf before the first successful getClient
NilFS == [kind |-> "nil"]

\* make(map[string]*kv.KV)
NoDBs == [name \in {} |-> NilFS]

NoArgs == [op |-> "none"]

NoResp == <<>>

NoReq == [model |-> "", messages |-> <<>>, client |-> NilClient]

NoOut == [val |-> GoNil, err |-> NilErr, panic |-> FALSE]

CallIdle ==
    /\ cli = NilClient
    /\ pc = "idle"
    /\ call = NoArgs
    /\ req = NoReq
    /\ loopI = 0
    /\ err = NilErr
    /\ resp = NoResp
    /\ trace = <<>>
    /\ out = NoOut
    /\ made = <<>>
    /\ cf = NilFS
    /\ dbs = NoDBs
    /\ scriptMsgs = <<>>

----------------------------------------------------------------------------
(* The store after construction *)

\* a bare store, as base.NewConfigurableModule returns it
InitStore ==
    /\ binding = "base"
    /\ ctor = "NewConfigurableModule"
    /\ configs = NewConfigurableModule
    /\ source \in [Producers -> Values]
    /\ loaded = FALSE
    /\ exposed = {}
    /\ ret = NoRet
    /\ lastRead = NoRead
    /\ CallIdle

\* a binding instance, as one of its three constructors returns it
InitBind ==
    /\ binding \in Bindings
    /\ \/ ctor = "NewModule" /\ configs = NewModule(binding)
       \/ /\ ctor = "NewModuleWithConfig"
          /\ \E vals \in CtorValues(binding) : configs = NewModuleWithConfig(binding, vals)
       \/ /\ ctor = "NewModuleWithGetter"
          /\ \E getters \in CtorGetters(binding) : configs = NewModuleWithGetter(binding, getters)
    /\ source \in [Producers -> Values]
    /\ loaded = FALSE
    /\ exposed = {}
    /\ ret = NoRet
    /\ lastRead = NoRead
    /\ CallIdle

----------------------------------------------------------------------------
(* Operations of ConfigurableModule *)

\* a store in which the first binding of a key wins
Bind_keepFirst(name, getter) ==
    [k \in DOMAIN configs \cup {name} |->
        IF k \in DOMAIN configs THEN configs[k] ELSE getter]

\* m.configs[name] = getter
Bind(name, getter) ==
    [k \in DOMAIN configs \cup {name} |-> IF k = name THEN getter ELSE configs[k]]

\* a store that calls the producer once, when it is bound
SetConfig_snapshot(name, getter) ==
    /\ binding = "base"
    /\ configs' = Bind(name, IF getter.kind = "fn" THEN ConstGetter(Invoke(getter)) ELSE getter)
    /\ ret' = Ret("SetConfig", name, getter, <<>>, ZeroValue, "none")
    /\ lastRead' = NoRead
    /\ UNCHANGED <<binding, ctor, source, loaded, exposed>>
    /\ UNCHANGED callVars

\* SetConfig: only code holding the store itself can call it (cfgMod is unexported)
SetConfig(name, getter) ==
    /\ binding = "base"
    /\ configs' = Bind(name, getter)
    /\ ret' = Ret("SetConfig", name, getter, <<>>, ZeroValue, "none")
    /\ lastRead' = NoRead
    /\ UNCHANGED <<binding, ctor, source, loaded, exposed>>
    /\ UNCHANGED callVars

SetConfigValue(name, value) ==
    /\ binding = "base"
    /\ configs' = Bind(name, ConstGetter(value))
    /\ ret' = Ret("SetConfigValue", name, ConstGetter(value), <<>>, ZeroValue, "none")
    /\ lastRead' = NoRead
    /\ UNCHANGED <<binding, ctor, source, loaded, exposed>>
    /\ UNCHANGED callVars

\* a setter that skips the type assertion
SetterError_noTypeCheck(args) ==
    IF Len(args) # 1 THEN "args" ELSE "none"

\* the outcome of the builtin that genSetConfig(name) returns, called with args
SetterError(args) ==
    IF Len(args) # 1 THEN "args"
    ELSE IF ~IsT(Unmarshal(args[1])) THEN "type_mismatch"
    ELSE "none"

genSetConfig(name, args) ==
    /\ loaded
    /\ name \in exposed
    /\ LET e == SetterError(args) IN
        /\ configs' = IF e = "none"
                      THEN Bind(name, ConstGetter(Unmarshal(args[1]).str))
                      ELSE configs
        /\ ret' = Ret("set_", name, NilGetter, args, ZeroValue, e)
        /\ lastRead' = IF e = "none" THEN NoRead ELSE PrevRead
    /\ UNCHANGED <<binding, ctor, source, loaded, exposed>>
    /\ UNCHANGED callVars

\* a lookup that takes the map's zero value for a missing key
GetConfigResult_noCheck(name) ==
    IF name \notin DOMAIN configs \/ configs[name].kind = "nil"
    THEN [val |-> ZeroValue, err |-> "none"]
    ELSE [val |-> Invoke(configs[name]), err |-> "none"]

\* GetConfig's two results
GetConfigResult(name) ==
    IF name \notin DOMAIN configs \/ configs[name].kind = "nil"
    THEN [val |-> ZeroValue, err |-> "not_set"]
    ELSE [val |-> Invoke(configs[name]), err |-> "none"]

GetConfig(name) ==
    /\ ret' = Ret("GetConfig", name, NilGetter, <<>>,
                  GetConfigResult(name).val, GetConfigResult(name).err)
    /\ lastRead' = PrevRead
    /\ UNCHANGED <<binding, ctor, configs, source, loaded, exposed>>
    /\ UNCHANGED callVars

\* a loader that skips the keys whose getter is nil
LoadedSetters_skipNil == {k \in DOMAIN configs : configs[k].kind # "nil"}

\* the set_<name> entries LoadModule puts in the module
LoadedSetters == DOMAIN configs

LoadModule ==
    /\ loaded' = TRUE
    /\ exposed' = LoadedSetters
    /\ ret' = Ret("LoadModule", "", NilGetter, <<>>, ZeroValue, "none")
    /\ lastRead' = PrevRead
    /\ UNCHANGED <<binding, ctor, configs, source>>
    /\ UNCHANGED callVars

\* what an injected producer reads (environment, secret store) changes
SourceChange(p, v) ==
    /\ v # source[p]
    /\ source' = [source EXCEPT ![p] = v]
    /\ ret' = Ret("SourceChange", "", NilGetter, <<>>, ZeroValue, "none")
    /\ lastRead' = PrevRead
    /\ UNCHANGED <<binding, ctor, configs, loaded, exposed>>
    /\ UNCHANGED callVars

Getters == {NilGetter} \cup {FnGetter(p) : p \in Producers}

\* a host working on a bare store
NextStore ==
    \/ \E k \in BaseKeys, g \in Getters : SetConfig(k, g)
    \/ \E k \in BaseKeys, v \in Values : SetConfigValue(k, v)
    \/ \E k \in BaseKeys, as \in ArgLists : genSetConfig(k, as)
    \/ \E k \in BaseKeys : GetConfig(k)
    \/ LoadModule
    \/ \E p \in Producers, v \in Values : SourceChange(p, v)

SpecStore == InitStore /\ [][NextStore]_vars

\* the setter calls a script makes on a binding: no argument, one string, one
\* value of another type, or the string repeated
BindArgLists ==
    {as \in ArgLists :
        /\ \A n \in 1..Len(as) : as[n].type = "string" => as[n].str = ValueName[2]
        /\ \A n \in 2..Len(as) : as[n] = as[1] /\ as[n].type = "string"}

\* a host loading a binding and a script calling its setters; the store is
\* unexported there, so SetConfig, SetConfigValue and GetConfig are not callable
NextBind ==
    \/ LoadModule
    \/ \E k \in DeclaredKeys(binding), as \in BindArgLists : genSetConfig(k, as)

SpecBind == InitBind /\ [][NextBind]_vars

----------------------------------------------------------------------------
(* The llm binding: model and client resolution *)

\* strings.ToLower on the provider names a host configures and on the
\* response formats a script asks for
LowerTable == [s \in {"OpenAI", "Azure", "AZURE", "URL", "Url"} |->
                 CASE s = "OpenAI" -> "openai"
                   [] s = "Azure" -> "azure"
                   [] s = "AZURE" -> "azure"
                   [] s = "URL" -> "url"
                   [] s = "Url" -> "url"]

\* a comparison of provider names that tells upper from lower case
ToLower_asIs(s) == s

ToLower(s) == IF s \in DOMAIN LowerTable THEN LowerTable[s] ELSE s

\* fmt.Errorf("config %s not set", name)
NotSetErr(name) == Err("config " \o name \o " not set")

\* a getModel that prefers the configured model to the argument
getModel_configFirst(key, val) ==
    IF GetConfigResult(key).err = "none" /\ GetConfigResult(key).val # ""
    THEN GetConfigResult(key).val
    ELSE val

\* getModel: the argument if non-empty, else the configured model, else ""
getModel(key, val) ==
    IF val # "" THEN val
    ELSE IF GetConfigResult(key).err = "none" THEN GetConfigResult(key).val
    ELSE ""

\* oai.NewClientWithConfig on the provider's configuration
NewClient(kind, apiKey, url) == [kind |-> kind, key |-> apiKey, url |-> url]

\* a getClient that looks at the provider before it asks for the API key
getClient_providerFirst(model) ==
    LET p == GetConfigResult("openai_provider")
        provider == IF p.err # "none" THEN "openai" ELSE p.val
        k == GetConfigResult("openai_api_key")
        u == GetConfigResult("openai_endpoint_url")
        Fail(e) == [cli |-> NilClient, err |-> e, built |-> FALSE]
        New(c) == [cli |-> c, err |-> NilErr, built |-> TRUE]
    IN  IF cli # NilClient THEN [cli |-> cli, err |-> NilErr, built |-> FALSE]
        ELSE IF ToLower(provider) \notin {"azure", "openai"}
        THEN Fail(Err("unsupported provider: " \o provider))
        ELSE IF k.err # "none" THEN Fail(NotSetErr("openai_api_key"))
        ELSE IF ToLower(provider) = "azure"
             THEN IF u.err # "none" THEN Fail(NotSetErr("openai_endpoint_url"))
                  ELSE New(NewClient("azure", k.val, u.val))
        ELSE New(NewClient("openai", k.val, u.val))

\* getClient: the injected client, or a new client built from the configuration
getClient(model) ==
    LET p == GetConfigResult("openai_provider")
        provider == IF p.err # "none" THEN "openai" ELSE p.val
        k == GetConfigResult("openai_api_key")
        u == GetConfigResult("openai_endpoint_url")
        Fail(e) == [cli |-> NilClient, err |-> e, built |-> FALSE]
        New(c) == [cli |-> c, err |-> NilErr, built |-> TRUE]
    IN  IF cli # NilClient THEN [cli |-> cli, err |-> NilErr, built |-> FALSE]
        ELSE IF k.err # "none" THEN Fail(NotSetErr("openai_api_key"))
        ELSE IF ToLower(provider) = "azure"
             THEN IF u.err # "none" THEN Fail(NotSetErr("openai_endpoint_url"))
                  ELSE New(NewClient("azure", k.val, u.val))
        ELSE IF ToLower(provider) = "openai" THEN New(NewClient("openai", k.val, u.val))
        ELSE Fail(Err("unsupported provider: " \o provider))

----------------------------------------------------------------------------
(* The llm binding: chat messages *)

\* files on the host that os.Open can read
ReadableFiles == {"ok.png"}

MsgKeys == {"role", "text", "image", "image_file", "image_url"}

\* a *starlark.Dict with the given entries
Dict(keys, f) == [k \in keys |-> f[k]]

\* getStringFromDict: the string or bytes under key, and whether there is one
getStringFromDict(d, key) ==
    IF key \in DOMAIN d /\ d[key].type \in {"string", "bytes"}
    THEN [s |-> d[key].str, ok |-> TRUE]
    ELSE [s |-> "", ok |-> FALSE]

\* imageFileToBase64 and imageDataToBase64: a data URI of the content
imageFileToBase64(filePath) ==
    IF filePath \in ReadableFiles
    THEN [uri |-> "data:file(" \o filePath \o ")", err |-> NilErr]
    ELSE [uri |-> "", err |-> Err("open " \o filePath)]

imageDataToBase64(data) == "data:bytes(" \o data \o ")"

TextPart(t) == [type |-> "text", body |-> t]

ImagePart(u) == [type |-> "image_url", body |-> u]

\* one iteration of messagesToChatMessages: the message for dict md at
\* 1-based position n, or the error that ends the conversion
ConvertMessage(md, n) ==
    LET role == getStringFromDict(md, "role")
        text == getStringFromDict(md, "text")
        imageBytes == getStringFromDict(md, "image")
        imageFile == getStringFromDict(md, "image_file")
        imageURL == getStringFromDict(md, "image_url")
        okImg == imageBytes.ok \/ imageFile.ok \/ imageURL.ok
        file == imageFileToBase64(imageFile.s)
        mcp == (IF text.ok THEN <<TextPart(text.s)>> ELSE <<>>)
               \o (IF imageURL.ok THEN <<ImagePart(imageURL.s)>> ELSE <<>>)
               \o (IF imageBytes.ok THEN <<ImagePart(imageDataToBase64(imageBytes.s))>> ELSE <<>>)
               \o (IF imageFile.ok THEN <<ImagePart(file.uri)>> ELSE <<>>)
        prefix == "message " \o Itoa(n) \o ": "
        NoMsg == [role |-> "", content |-> "", parts |-> <<>>]
    IN  IF ~role.ok
        THEN [msg |-> NoMsg, err |-> Err(prefix \o "role is required")]
        ELSE IF ~(text.ok \/ okImg)
        THEN [msg |-> NoMsg, err |-> Err(prefix \o "at least one of text, image, image_file, or image_url is required")]
        ELSE IF text.ok /\ ~okImg
        THEN [msg |-> [role |-> role.s, content |-> text.s, parts |-> <<>>], err |-> NilErr]
        ELSE IF imageFile.ok /\ file.err # NilErr
        THEN [msg |-> NoMsg, err |-> Err(prefix \o file.err.msg)]
        ELSE [msg |-> [role |-> role.s, content |-> "", parts |-> mcp], err |-> NilErr]

\* messagesToChatMessages: the converted messages in order, or the first error
RECURSIVE ConvertFrom(_, _, _)
ConvertFrom(msgs, n, res) ==
    IF n > Len(msgs) THEN [msgs |-> res, err |-> NilErr]
    ELSE LET c == ConvertMessage(msgs[n], n)
         IN  IF c.err # NilErr THEN [msgs |-> <<>>, err |-> c.err]
             ELSE ConvertFrom(msgs, n + 1, Append(res, c.msg))

messagesToChatMessages(msgs) == ConvertFrom(msgs, 1, <<>>)

\* newMessageStruct: the record of the arguments that are neither None nor
\* empty; role is 'user' if the argument is left out
newMessageStruct(m) ==
    LET val == [k \in MsgKeys |-> IF k = "role" /\ ~m.role_given THEN "user" ELSE m[k]]
        present == {k \in MsgKeys : val[k] # ""}
    IN  [k \in present |-> StarString(val[k])]

\* the user message chat builds from its inline arguments; none if all are empty
InlineKeys(a) ==
    {k \in {"text", "image", "image_file", "image_url"} : a[k] # ""}

usrMd(a) ==
    [k \in InlineKeys(a) \cup {"role"} |->
        IF k = "role" THEN StarString("user") ELSE StarString(a[k])]

\* a chat that puts the inline user message after the messages argument
allMsgs_inlineLast(a) ==
    IF InlineKeys(a) # {} THEN a.messages \o <<usrMd(a)>> ELSE a.messages

\* allMsgs: the inline user message, if any, before the messages argument
allMsgs(a) ==
    IF InlineKeys(a) # {} THEN <<usrMd(a)>> \o a.messages ELSE a.messages

----------------------------------------------------------------------------
(* The llm binding: provider answers and response shaping *)

\* a loop that treats no error as a bad request
IsBadRequest_never(e) == FALSE

\* errors.As(err, &ae) && ae != nil && ae.HTTPStatusCode == http.StatusBadRequest
IsBadRequest(e) == e.type = "APIError" /\ e.status = 400

\* the errors a provider invocation can end in
ProviderErrors == {APIError(400), APIError(500), RequestError(400), NetError}

\* an image of an ImageResponse: its URL and its base64 payload
Image(url, b64) == [url |-> url, b64 |-> b64]

\* base64.StdEncoding.DecodeString on the payloads a provider sends
Base64Table == [s \in {"b64:png1", "b64:png1x", "b64:png2", "b64:junk"} |->
                 CASE s = "b64:png1" -> "png1"
                   [] s = "b64:png1x" -> "png1x"
                   [] s = "b64:png2" -> "png2"
                   [] s = "b64:junk" -> "junk"]

\* png.Decode: the picture in the bytes; png1x is picture 1 in another encoding
PngTable == [bs \in {"png1", "png1x", "png2"} |->
                 CASE bs = "png1" -> "picture1"
                   [] bs = "png1x" -> "picture1"
                   [] bs = "png2" -> "picture2"]

\* png.Encode: the encoder's bytes for a picture
PngEncode(img) == IF img = "picture1" THEN "png1" ELSE "png2"

\* an extractImage that returns the decoded payload as it came
extractImage_noReencode(di, isURL) ==
    IF isURL THEN [val |-> Scalar("string", di.url), err |-> NilErr]
    ELSE IF di.b64 \notin DOMAIN Base64Table
         THEN [val |-> None, err |-> Err("illegal base64 data")]
    ELSE IF Base64Table[di.b64] \notin DOMAIN PngTable
         THEN [val |-> None, err |-> Err("png: invalid format")]
    ELSE [val |-> Scalar("bytes", Base64Table[di.b64]), err |-> NilErr]

\* extractImage: the URL, or the payload decoded and re-encoded as PNG bytes
extractImage(di, isURL) ==
    IF isURL THEN [val |-> Scalar("string", di.url), err |-> NilErr]
    ELSE IF di.b64 \notin DOMAIN Base64Table
         THEN [val |-> None, err |-> Err("illegal base64 data")]
    ELSE IF Base64Table[di.b64] \notin DOMAIN PngTable
         THEN [val |-> None, err |-> Err("png: invalid format")]
    ELSE [val |-> Scalar("bytes", PngEncode(PngTable[Base64Table[di.b64]])), err |-> NilErr]

\* a conversion that keeps the contents only
structToStarlark_contents(op, r) ==
    StarList([n \in 1..Len(r) |->
                 IF op = "chat" THEN Scalar("string", r[n])
                 ELSE Scalar("image", r[n].url \o "|" \o r[n].b64)])

\* structToStarlark: the whole response as a script value
structToStarlark(op, r) ==
    [type |-> "struct", str |-> op,
     items |-> [n \in 1..Len(r) |->
                 IF op = "chat" THEN Scalar("string", r[n])
                 ELSE Scalar("image", r[n].url \o "|" \o r[n].b64)]]

\* the draw loop over resp.Data: the converted images, or the first error
RECURSIVE ExtractFrom(_, _, _, _)
ExtractFrom(data, isURL, n, res) ==
    IF n > Len(data) THEN [val |-> StarList(res), err |-> NilErr]
    ELSE LET x == extractImage(data[n], isURL)
         IN  IF x.err # NilErr THEN [val |-> None, err |-> x.err]
             ELSE ExtractFrom(data, isURL, n + 1, Append(res, x.val))

Returned(v, e) == [val |-> v, err |-> e, panic |-> FALSE]

\* an index out of range: the handler does not return
Panicked == [val |-> GoNil, err |-> NilErr, panic |-> TRUE]

\* a chat that returns a string exactly when one choice came back
ChatChoices_byCount(a, r) ==
    IF Len(r) = 1 THEN Returned(Scalar("string", r[1]), NilErr)
    ELSE Returned(StarList([n \in 1..Len(r) |-> Scalar("string", r[n])]), NilErr)

\* chat's simplified result for a response with choices: the first content if
\* one choice was asked for, else the list of contents
ChatChoices(a, r) ==
    IF a.n = 1 THEN Returned(Scalar("string", r[1]), NilErr)
    ELSE Returned(StarList([n \in 1..Len(r) |-> Scalar("string", r[n])]), NilErr)

\* a chat that takes the first choice without looking at their number
ChatContents_noEmptyCheck(a, r) ==
    IF a.n = 1 /\ Len(r) = 0 THEN Panicked ELSE ChatChoices(a, r)

\* chat's simplified result: None for a response without choices
ChatContents(a, r) ==
    IF Len(r) = 0 THEN Returned(None, NilErr) ELSE ChatChoices(a, r)

\* a handler that returns the provider's error whatever allow_error says
ShapeOutcome_ignoreAllow(a, e, r, marshalOK) ==
    IF e # NilErr THEN Returned(None, e)
    ELSE IF a.full_response
    THEN IF marshalOK THEN Returned(structToStarlark(a.op, r), NilErr)
         ELSE Returned(None, Err("json: unsupported value"))
    ELSE IF a.op = "chat" THEN ChatContents(a, r)
    ELSE LET isURL == ToLower(a.response_format) = "url" IN
         IF a.n = 1
         THEN IF Len(r) = 0 THEN Panicked
              ELSE Returned(extractImage(r[1], isURL).val, extractImage(r[1], isURL).err)
         ELSE Returned(ExtractFrom(r, isURL, 1, <<>>).val, ExtractFrom(r, isURL, 1, <<>>).err)

\* the handler after its retry loop, for a full-response conversion that
\* succeeds (marshalOK) or fails
ShapeOutcome(a, e, r, marshalOK) ==
    IF e # NilErr
    THEN IF a.allow_error THEN Returned(None, NilErr) ELSE Returned(None, e)
    ELSE IF a.full_response
    THEN IF marshalOK THEN Returned(structToStarlark(a.op, r), NilErr)
         ELSE Returned(None, Err("json: unsupported value"))
    ELSE IF a.op = "chat" THEN ChatContents(a, r)
    ELSE LET isURL == ToLower(a.response_format) = "url" IN
         IF a.n = 1
         THEN IF Len(r) = 0 THEN Panicked
              ELSE Returned(extractImage(r[1], isURL).val, extractImage(r[1], isURL).err)
         ELSE Returned(ExtractFrom(r, isURL, 1, <<>>).val, ExtractFrom(r, isURL, 1, <<>>).err)

----------------------------------------------------------------------------
(* The llm binding: the chat and draw calls *)

Request(model, messages, client) ==
    [model |-> model, messages |-> messages, client |-> client]

\* chat up to the retry loop: the first error, or the request and the client
ChatPrepare(a) ==
    LET model == getModel("openai_gpt_model", a.model)
        conv == messagesToChatMessages(allMsgs(a))
        c == getClient(model)
        Fail(v, e) == [out |-> Returned(v, e), req |-> NoReq, built |-> FALSE]
    IN  IF ~a.decodeOK THEN Fail(None, Err("chat: bad arguments"))
        ELSE IF model = "" THEN Fail(None, Err("gpt model is not set"))
        ELSE IF conv.err # NilErr THEN Fail(None, conv.err)
        ELSE IF a.response_format \notin {"json", "text"}
        THEN Fail(None, Err("unsupported response format: " \o a.response_format))
        ELSE IF c.err # NilErr THEN Fail(GoNil, c.err)
        ELSE [out |-> NoOut, req |-> Request(model, conv.msgs, c.cli), built |-> c.built]

\* draw up to the retry loop
DrawPrepare(a) ==
    LET model == getModel("openai_dalle_model", a.model)
        c == getClient(model)
        Fail(v, e) == [out |-> Returned(v, e), req |-> NoReq, built |-> FALSE]
    IN  IF ~a.decodeOK THEN Fail(None, Err("draw: bad arguments"))
        ELSE IF a.prompt = "" THEN Fail(None, Err("prompt is required"))
        ELSE IF model = "" THEN Fail(None, Err("dalle model is not set"))
        ELSE IF c.err # NilErr THEN Fail(GoNil, c.err)
        ELSE [out |-> NoOut, req |-> Request(model, <<>>, c.cli), built |-> c.built]

\* a handler whose allow_error also hides the errors of the steps before the loop
Begin_swallow(a, pre) ==
    /\ pc = "idle"
    /\ pre.built => Len(made) < MaxClients
    /\ made' = IF pre.built THEN Append(made, pre.req.client) ELSE made
    /\ call' = a
    /\ req' = pre.req
    /\ loopI' = 0
    /\ err' = NilErr
    /\ resp' = NoResp
    /\ trace' = <<>>
    /\ IF pre.out # NoOut
       THEN /\ pc' = "done"
            /\ out' = IF a.allow_error THEN Returned(None, NilErr) ELSE pre.out
       ELSE /\ out' = NoOut
            /\ pc' = IF 0 < a.retry THEN "invoke" ELSE "shape"
    /\ UNCHANGED <<cli, binding, ctor, configs, source, loaded, exposed, ret, lastRead, cf, dbs, scriptMsgs>>

\* a script calls chat or draw: the handler runs up to its first provider
\* invocation, or to its return if it fails before or has no attempt to make
Begin(a, pre) ==
    /\ pc = "idle"
    /\ pre.built => Len(made) < MaxClients
    /\ made' = IF pre.built THEN Append(made, pre.req.client) ELSE made
    /\ call' = a
    /\ req' = pre.req
    /\ loopI' = 0
    /\ err' = NilErr
    /\ resp' = NoResp
    /\ trace' = <<>>
    /\ IF pre.out # NoOut
       THEN pc' = "done" /\ out' = pre.out
       ELSE /\ out' = NoOut
            /\ pc' = IF 0 < a.retry THEN "invoke" ELSE "shape"
    /\ UNCHANGED <<cli, binding, ctor, configs, source, loaded, exposed, ret, lastRead, cf, dbs, scriptMsgs>>

chat(a) == binding = "llm" /\ a.op = "chat" /\ Begin(a, ChatPrepare(a))

draw(a) == binding = "llm" /\ a.op = "draw" /\ Begin(a, DrawPrepare(a))

\* a loop that makes one attempt too many
Retries_offByOne(e, n, retryTimes) == e # NilErr /\ ~IsBadRequest(e) /\ n + 1 <= retryTimes

\* whether the retry loop goes on after an attempt that ended in e
Retries(e, n, retryTimes) == e # NilErr /\ ~IsBadRequest(e) /\ n + 1 < retryTimes

\* one iteration of the retry loop: the provider is invoked and answers with
\* response r, or with error e and no response
Attempt(e, r) ==
    /\ pc = "invoke"
    /\ call.op \in {"chat", "draw"}
    /\ trace' = Append(trace, e)
    /\ err' = e
    /\ resp' = IF e = NilErr THEN r ELSE NoResp
    /\ loopI' = IF e = NilErr \/ IsBadRequest(e) THEN loopI ELSE loopI + 1
    /\ pc' = IF Retries(e, loopI, call.retry) THEN "invoke" ELSE "shape"
    /\ UNCHANGED <<cli, call, req, out, binding, ctor, configs, source, loaded, exposed, ret, lastRead, made, cf, dbs, scriptMsgs>>

\* the handler from the end of its retry loop to its return
Shape(marshalOK) ==
    /\ pc = "shape"
    /\ call.op \in {"chat", "draw"}
    /\ out' = ShapeOutcome(call, err, resp, marshalOK)
    /\ pc' = "done"
    /\ UNCHANGED <<cli, call, req, loopI, err, resp, trace,
                   binding, ctor, configs, source, loaded, exposed, ret, lastRead, made, cf, dbs, scriptMsgs>>

\* the script goes on after the call
Return ==
    /\ pc = "done"
    /\ pc' = "idle"
    /\ call' = NoArgs
    /\ req' = NoReq
    /\ loopI' = 0
    /\ err' = NilErr
    /\ resp' = NoResp
    /\ trace' = <<>>
    /\ out' = NoOut
    /\ UNCHANGED <<cli, binding, ctor, configs, source, loaded, exposed, ret, lastRead, made, cf, dbs, scriptMsgs>>

----------------------------------------------------------------------------
(* The email binding: the send call *)

\* ystring.IsBlank: empty or white space only
\* a blank test that takes white space for content
IsBlank_emptyOnly(str) == str = ""

IsBlank(str) == str \in {"", " "}

\* NullableStringOrBytes.IsNullOrEmpty: absent or the empty string
IsNullOrEmpty(str) == str = ""

\* goldmark's rendering of a markdown body
RenderMarkdown(md) == "<html>" \o md \o "</html>"

\* a resolution that prefers the local part to the explicit address
ResolveAddress_idFirst(addr, id, senderDomain, what) ==
    IF ~IsBlank(id)
    THEN IF ~IsBlank(senderDomain)
         THEN [addr |-> id \o "@" \o senderDomain, err |-> NilErr]
         ELSE [addr |-> "", err |-> Err("sender_domain should be set when " \o what \o " is used")]
    ELSE IF ~IsBlank(addr) THEN [addr |-> addr, err |-> NilErr]
    ELSE [addr |-> "", err |-> IF what = "from_id" THEN Err("no valid from or from_id found")
                                ELSE NilErr]

\* the address for an explicit address or a local part, or the error
ResolveAddress(addr, id, senderDomain, what) ==
    IF ~IsBlank(addr) THEN [addr |-> addr, err |-> NilErr]
    ELSE IF ~IsBlank(id)
         THEN IF ~IsBlank(senderDomain)
              THEN [addr |-> id \o "@" \o senderDomain, err |-> NilErr]
              ELSE [addr |-> "", err |-> Err("sender_domain should be set when " \o what \o " is used")]
    ELSE [addr |-> "", err |-> IF what = "from_id" THEN Err("no valid from or from_id found")
                                ELSE NilErr]

\* the body of the request: html, else text, else the rendered markdown
SelectBody(a) ==
    IF ~IsNullOrEmpty(a.html) THEN [html |-> a.html, text |-> ""]
    ELSE IF ~IsNullOrEmpty(a.text) THEN [html |-> "", text |-> a.text]
    ELSE IF ~IsNullOrEmpty(a.markdown) THEN [html |-> RenderMarkdown(a.markdown), text |-> ""]
    ELSE [html |-> "", text |-> ""]

\* a handler that sends without the attachments it could not build
AttachmentError_ignore(a) == NilErr

\* the first attachment that cannot be built, if any
AttachmentError(a) ==
    IF \E n \in 1..Len(a.attachment_file) : a.attachment_file[n] \notin ReadableFiles
    THEN Err("open attachment file")
    ELSE IF \E n \in 1..Len(a.attachment) :
              /\ \A m \in 1..(n - 1) : {"name", "content"} \subseteq DOMAIN a.attachment[m]
              /\ "name" \notin DOMAIN a.attachment[n]
    THEN Err("attachment must have a name")
    ELSE IF \E n \in 1..Len(a.attachment) : "content" \notin DOMAIN a.attachment[n]
    THEN Err("attachment must have content")
    ELSE NilErr

\* a validation that lets an empty recipient list through
SendValidate_noTo(a) ==
    IF \A b \in {a.html, a.text, a.markdown} : IsBlank(b)
    THEN Err("one of body_html, body_text, or body_markdown must be non-blank")
    ELSE IF IsBlank(a.from) /\ IsBlank(a.from_id)
    THEN Err("one of from or from_id must be non-blank")
    ELSE NilErr

\* the validation of the decoded arguments: body, recipients, sender
SendValidate(a) ==
    IF \A b \in {a.html, a.text, a.markdown} : IsBlank(b)
    THEN Err("one of body_html, body_text, or body_markdown must be non-blank")
    ELSE IF Len(a.to) = 0 THEN Err("to must be set and non-empty")
    ELSE IF IsBlank(a.from) /\ IsBlank(a.from_id)
    THEN Err("one of from or from_id must be non-blank")
    ELSE NilErr

\* send up to the provider invocation: the first error, or the request
SendPrepare(a) ==
    LET key == GetConfigResult("resend_api_key")
        senderDomain == GetConfigResult("sender_domain").val
        from == ResolveAddress(a.from, a.from_id, senderDomain, "from_id")
        reply == ResolveAddress(a.reply_to, a.reply_id, senderDomain, "reply_id")
        Fail(e) == [out |-> Returned(None, e), req |-> NoReq]
    IN  IF key.err # "none" THEN Fail(Err("resend_api_key is not set"))
        ELSE IF ~a.decodeOK THEN Fail(Err("send: bad arguments"))
        ELSE IF SendValidate(a) # NilErr THEN Fail(SendValidate(a))
        ELSE IF from.err # NilErr THEN Fail(from.err)
        ELSE IF reply.err # NilErr THEN Fail(reply.err)
        ELSE IF AttachmentError(a) # NilErr THEN Fail(AttachmentError(a))
        ELSE [out |-> NoOut,
              req |-> [from |-> from.addr, to |-> a.to, reply_to |-> reply.addr,
                       subject |-> a.subject, body |-> SelectBody(a),
                       attachments |-> Len(a.attachment_file) + Len(a.attachment),
                       client |-> NewClient("resend", key.val, "")]]

\* a script calls send: the handler runs up to its provider invocation
send(a) ==
    /\ binding = "email"
    /\ a.op = "send"
    /\ pc = "idle"
    /\ call' = a
    /\ req' = SendPrepare(a).req
    /\ IF SendPrepare(a).out # NoOut
       THEN pc' = "done" /\ out' = SendPrepare(a).out
       ELSE pc' = "invoke" /\ out' = NoOut
    /\ loopI' = 0
    /\ err' = NilErr
    /\ resp' = NoResp
    /\ trace' = <<>>
    /\ UNCHANGED <<cli, binding, ctor, configs, source, loaded, exposed, ret, lastRead, made, cf, dbs, scriptMsgs>>

\* client.Emails.Send answers with a message id, or with an error
Deliver(e, id) ==
    /\ pc = "invoke"
    /\ call.op = "send"
    /\ trace' = Append(trace, e)
    /\ err' = e
    /\ out' = IF e # NilErr THEN Returned(None, e) ELSE Returned(Scalar("string", id), NilErr)
    /\ pc' = "done"
    /\ UNCHANGED <<cli, call, req, loopI, resp,
                   binding, ctor, configs, source, loaded, exposed, ret, lastRead, made, cf, dbs, scriptMsgs>>

----------------------------------------------------------------------------
(* Script calls on an llm or email binding *)

MaxRetry == 3       \* largest retry argument
MaxN == 3           \* largest n argument
MaxChoices == 3     \* most choices or images in a provider response

InjectedClient == NewClient("injected", "", "")

\* SetClient: the host injects a client
SetClient(c) ==
    /\ binding = "llm"
    /\ pc = "idle"
    /\ cli # c
    /\ cli' = c
    /\ UNCHANGED <<pc, call, req, loopI, err, resp, trace, out,
                   binding, ctor, configs, source, loaded, exposed, ret, lastRead, made, cf, dbs, scriptMsgs>>

\* message dicts a script passes to chat
TextMsg == [k \in {"role", "text"} |-> IF k = "role" THEN StarString("user") ELSE StarString("hi")]

NoRoleMsg == [k \in {"text"} |-> StarString("hi")]

FileMsg(path) ==
    [k \in {"role", "image_file"} |-> IF k = "role" THEN StarString("user") ELSE StarString(path)]

\* the retry count after UnpackArgs: the argument, or the default if omitted
DefaultRetry == 1

RetryArgs ==
    {[given |-> TRUE, times |-> r] : r \in -1..MaxRetry}
        \cup {[given |-> FALSE, times |-> DefaultRetry]}

WithRetry(args) ==
    {[a EXCEPT !.retry = ra.times, !.retry_given = ra.given] : a \in args, ra \in RetryArgs}

ChatArgs ==
    WithRetry(
    [op : {"chat"}, decodeOK : BOOLEAN,
     text : {"", "hi"}, image : {""}, image_file : {""}, image_url : {""},
     messages : {<<>>, <<TextMsg>>, <<NoRoleMsg>>, <<FileMsg("missing.png")>>},
     model : {"", "m"}, n : 1..MaxN, response_format : {"text", "json", "xml"},
     retry : {0}, retry_given : {FALSE}, full_response : BOOLEAN, allow_error : BOOLEAN])

DrawArgs ==
    WithRetry(
    [op : {"draw"}, decodeOK : BOOLEAN, prompt : {"", "a cat"},
     model : {"", "m"}, n : 1..MaxN, response_format : {"url", "URL", "b64_json"},
     retry : {0}, retry_given : {FALSE}, full_response : BOOLEAN, allow_error : BOOLEAN])

GoodAttachment == [k \in {"name", "content"} |-> StarString("a")]

NamelessAttachment == [k \in {"content"} |-> StarString("a")]

SendArgs ==
    [op : {"send"}, decodeOK : BOOLEAN, subject : {"s"},
     html : {"", " ", "<p>hi</p>"}, text : {"", " ", "hi"}, markdown : {"", " ", "# hi"},
     to : {<<>>, <<"bob@example.org">>},
     from : {"", " ", "me@example.org"}, from_id : {"", " ", "alice"},
     reply_to : {""}, reply_id : {"", "alice"},
     attachment_file : {<<>>, <<"ok.png">>, <<"missing.png">>},
     attachment : {<<>>, <<GoodAttachment>>, <<NamelessAttachment>>}]

\* the choices of a chat response and the images of a draw response
ChatResponses == {<<>>, <<"x">>, <<"x", "y">>, <<"x", "y", "z">>, <<"x", "y", "z", "w">>}

DrawResponses ==
    {<<>>,
     <<Image("u1", "b64:png1x")>>,
     <<Image("u1", "b64:png1x"), Image("u2", "b64:png2")>>,
     <<Image("u1", "%%")>>,
     <<Image("u1", "b64:png1"), Image("u2", "b64:junk")>>}

Responses(op) ==
    {r \in (IF op = "chat" THEN ChatResponses ELSE DrawResponses) : Len(r) <= MaxChoices}

\* the configuration values a host builds the bindings with
CallCtorValues(b) ==
    IF b = "llm"
    THEN {v \in [openai_provider : {"openai", "bogus"}, openai_endpoint_url : {""},
                  openai_api_key : {"k"}, openai_gpt_model : {"", "gpt"},
                  openai_dalle_model : {"", "dalle"}] :
             (v.openai_gpt_model = "") <=> (v.openai_dalle_model = "")}
    ELSE [resend_api_key : {"k"}, sender_domain : {"", " ", "example.com"}]

\* the getters a host builds the email binding with: no sender domain
CallCtorGetters ==
    {[k \in {"resend_api_key", "sender_domain"} |->
         IF k = "resend_api_key" THEN ConstGetter("k") ELSE NilGetter]}

InitCall ==
    /\ binding \in {"llm", "email"}
    /\ \/ ctor = "NewModule" /\ configs = NewModule(binding)
       \/ /\ ctor = "NewModuleWithConfig"
          /\ \E vals \in CallCtorValues(binding) : configs = NewModuleWithConfig(binding, vals)
       \/ /\ ctor = "NewModuleWithGetter"
          /\ binding = "email"
          /\ \E getters \in CallCtorGetters : configs = NewModuleWithGetter(binding, getters)
    /\ source \in [Producers -> {ZeroValue}]
    /\ loaded = FALSE
    /\ exposed = {}
    /\ ret = NoRet
    /\ lastRead = NoRead
    /\ CallIdle

\* the guards ahead of the quantifiers keep the arguments from being enumerated
\* where no call can start
NextCall ==
    \/ pc = "idle" /\ \E c \in {NilClient, InjectedClient} : SetClient(c)
    \/ pc = "idle" /\ binding = "llm" /\ \E a \in ChatArgs : chat(a)
    \/ pc = "idle" /\ binding = "llm" /\ \E a \in DrawArgs : draw(a)
    \/ pc = "idle" /\ binding = "email" /\ \E a \in SendArgs : send(a)
    \/ \E e \in ProviderErrors : Attempt(e, NoResp)
    \/ pc = "invoke" /\ \E r \in Responses(call.op) : Attempt(NilErr, r)
    \/ \E marshalOK \in BOOLEAN : Shape(marshalOK)
    \/ \E e \in {NetError, Err("resend: validation_error")} : Deliver(e, "")
    \/ Deliver(NilErr, "id-1")

SpecCall == InitCall /\ [][NextCall]_vars

----------------------------------------------------------------------------
(* The charm bindings: the API client, the cfs client, the ckv clients *)

\* cmcli.ConfigFromEnv with nothing set in the environment
EnvConfig == [host |-> "cloud.charm.sh", data_dir |-> "", key_file |-> "",
              ssh_port |-> 35353, http_port |-> 35354]

\* strconv.Atoi on the port texts a host configures
Atoi(str) ==
    IF \E n \in CtorPorts : Itoa(n) = str
    THEN [n |-> CHOOSE n \in CtorPorts : Itoa(n) = str, ok |-> TRUE]
    ELSE [n |-> 0, ok |-> FALSE]

\* *cmcli.Client, *fs.FS and *kv.KV: what they were constructed from
CharmClient(cfg) == [kind |-> "charm", cfg |-> cfg]

FS(cc) == [kind |-> "fs", cc |-> cc]

KV(cc, name) == [kind |-> "kv", cc |-> cc, name |-> name]

\* the first step outside the binding that fails in a call, if any:
\* ConfigFromEnv, cmcli.NewClient, fs.NewFSWithClient, Client.DataPath,
\* kv.Open, or the operation on the client
FailPoints == {"none", "env", "new", "fs", "path", "open", "op"}

\* InitializeClient: the environment's configuration overlaid with the keys
\* that are set, and a client for it; steps lists the outside calls made
InitializeClient(failAt) ==
    LET h == GetConfigResult("host")
        d == GetConfigResult("data_dir")
        f == GetConfigResult("key_file")
        ssh == GetConfigResult("ssh_port")
        http == GetConfigResult("http_port")
        cfg == [host |-> IF h.err = "none" THEN h.val ELSE EnvConfig.host,
                data_dir |-> IF d.err = "none" THEN d.val ELSE EnvConfig.data_dir,
                key_file |-> IF f.err = "none" THEN f.val ELSE EnvConfig.key_file,
                ssh_port |-> IF ssh.err = "none" THEN Atoi(ssh.val).n ELSE EnvConfig.ssh_port,
                http_port |-> IF http.err = "none" THEN Atoi(http.val).n ELSE EnvConfig.http_port]
        Fail(e, st) == [cc |-> NilFS, err |-> e, steps |-> st]
    IN  IF failAt = "env" THEN Fail(Err("charm: config from env"), <<"ConfigFromEnv">>)
        ELSE IF ssh.err = "none" /\ ~Atoi(ssh.val).ok
        THEN Fail(Err("invalid SSH port"), <<"ConfigFromEnv">>)
        ELSE IF http.err = "none" /\ ~Atoi(http.val).ok
        THEN Fail(Err("invalid HTTP port"), <<"ConfigFromEnv">>)
        ELSE IF failAt = "new" THEN Fail(Err("charm: new client"), <<"ConfigFromEnv", "NewClient">>)
        ELSE [cc |-> CharmClient(cfg), err |-> NilErr, steps |-> <<"ConfigFromEnv", "NewClient">>]

\* a cfs getClient that constructs a client on every call
cfsGetClient_noCache(failAt) ==
    LET c == InitializeClient(failAt)
    IN  IF c.err # NilErr THEN [cf |-> NilFS, err |-> c.err, built |-> FALSE, steps |-> c.steps]
        ELSE IF failAt = "fs"
        THEN [cf |-> NilFS, err |-> Err("charm: new fs"), built |-> FALSE,
              steps |-> c.steps \o <<"NewFSWithClient">>]
        ELSE [cf |-> FS(c.cc), err |-> NilErr, built |-> TRUE,
              steps |-> c.steps \o <<"NewFSWithClient">>]

\* cfs Module.getClient: the cached client, or a new one that is then cached
cfsGetClient(failAt) ==
    LET c == InitializeClient(failAt)
    IN  IF cf # NilFS THEN [cf |-> cf, err |-> NilErr, built |-> FALSE, steps |-> <<>>]
        ELSE IF c.err # NilErr THEN [cf |-> NilFS, err |-> c.err, built |-> FALSE, steps |-> c.steps]
        ELSE IF failAt = "fs"
        THEN [cf |-> NilFS, err |-> Err("charm: new fs"), built |-> FALSE,
              steps |-> c.steps \o <<"NewFSWithClient">>]
        ELSE [cf |-> FS(c.cc), err |-> NilErr, built |-> TRUE,
              steps |-> c.steps \o <<"NewFSWithClient">>]

CfsOps == {"read", "write", "remove", "stat"}

\* what a cfs operation returns when nothing fails
CfsValue(op) ==
    CASE op = "read" -> Scalar("string", "content")
      [] op = "stat" -> Scalar("struct", "FileInfo")
      [] OTHER -> None

\* the arguments of a cfs or ckv call
CharmArgs(op, decodeOK, name) == [op |-> op, decodeOK |-> decodeOK, name |-> name]

\* the request of a cfs or ckv call: the client the handler works on
CharmReq(client) == [model |-> "", messages |-> <<>>, client |-> client]

\* readFile, writeFile, removeFile, statFile
cfsCall(op, decodeOK, failAt) ==
    /\ binding = "cfs"
    /\ pc = "idle"
    /\ LET g == cfsGetClient(failAt)
           built == decodeOK /\ g.built
       IN  /\ built => Len(made) < MaxClients
           /\ cf' = IF built THEN g.cf ELSE cf
           /\ made' = IF built THEN Append(made, g.cf) ELSE made
           /\ req' = CharmReq(IF decodeOK THEN g.cf ELSE NilFS)
           /\ trace' = IF ~decodeOK THEN <<>>
                       ELSE IF g.err # NilErr THEN g.steps
                       ELSE g.steps \o <<op>>
           /\ out' = IF ~decodeOK THEN Returned(GoNil, Err(op \o ": bad arguments"))
                     ELSE IF g.err # NilErr THEN Returned(GoNil, g.err)
                     ELSE IF failAt = "op"
                     THEN Returned(IF op \in {"write", "remove"} THEN None ELSE GoNil,
                                   Err(op \o ": file system error"))
                     ELSE Returned(CfsValue(op), NilErr)
    /\ call' = CharmArgs(op, decodeOK, "")
    /\ pc' = "done"
    /\ UNCHANGED <<cli, loopI, err, resp, dbs,
                   binding, ctor, configs, source, loaded, exposed, ret, lastRead, scriptMsgs>>

\* the paths a Charm file system can hold below the directory d, which are
\* directories, and fs.ReadDir's entries of each directory, sorted by name
Paths == {"d", "d/a", "d/a/x", "d/a/x/y", "d/b"}

IsDir(p) == p \in {"d", "d/a", "d/a/x"}

DirEntries(p) ==
    CASE p = "d" -> <<"d/a", "d/b">>
      [] p = "d/a" -> <<"d/a/x">>
      [] p = "d/a/x" -> <<"d/a/x/y">>
      [] OTHER -> <<>>

\* the file systems: d with some of the paths below it
Trees ==
    {t \in SUBSET Paths :
        /\ "d" \in t
        /\ "d/a/x" \in t => "d/a" \in t
        /\ "d/a/x/y" \in t => "d/a/x" \in t}

\* the function of the gofs.WalkDir call: the list so far with p appended
\* unless the filter rejects it, and what the function returns to the walk
WalkFn(a, p, sl) ==
    LET r == a.filter[p]
        add == Append(sl, Scalar("string", p))
    IN  IF a.filter_given /\ r = "raise"
        THEN [sl |-> sl, ret |-> "err", msg |-> "filter " \o p \o ": raised"]
        ELSE IF a.filter_given /\ r = "int"
        THEN [sl |-> sl, ret |-> "err", msg |-> "filter " \o p \o ": got int, want bool"]
        ELSE IF a.filter_given /\ r = "False"
        THEN [sl |-> sl, ret |-> "nil", msg |-> ""]
        ELSE IF ~a.recursive /\ p # a.path /\ IsDir(p)
        THEN [sl |-> add, ret |-> "SkipDir", msg |-> ""]
        ELSE [sl |-> add, ret |-> "nil", msg |-> ""]

\* io/fs walkDir: the function on p, then, unless it skipped the directory
\* or failed, the walk of the entries of p in order; SkipDir from an entry
\* ends the walk of the entries
RECURSIVE walkDir(_, _, _)
RECURSIVE walkEntries(_, _, _, _)
walkDir(a, p, sl) ==
    LET c == WalkFn(a, p, sl)
        entries == SelectSeq(DirEntries(p), LAMBDA q : q \in a.tree)
    IN  IF c.ret = "SkipDir" /\ IsDir(p) THEN [c EXCEPT !.ret = "nil"]
        ELSE IF c.ret # "nil" \/ ~IsDir(p) THEN c
        ELSE walkEntries(a, entries, 1, c.sl)

walkEntries(a, entries, i, sl) ==
    IF i > Len(entries) THEN [sl |-> sl, ret |-> "nil", msg |-> ""]
    ELSE LET r == walkDir(a, entries[i], sl)
         IN  IF r.ret = "err" THEN r
             ELSE IF r.ret = "SkipDir" THEN [r EXCEPT !.ret = "nil"]
             ELSE walkEntries(a, entries, i + 1, r.sl)

\* gofs.WalkDir from the path of the call
WalkDir(a) == walkDir(a, a.path, <<>>)

\* the arguments of listdir and the file system it finds; a filter returns
\* True, False or an int on a path, or raises; the filter of a call without
\* one, and of the paths the file system lacks, is all True
ListArgs ==
    {a \in [op : {"listdir"}, decodeOK : BOOLEAN, name : {""}, path : {"d"},
             recursive : BOOLEAN, filter_given : BOOLEAN,
             filter : [Paths -> {"True", "False", "int", "raise"}], tree : Trees] :
        \A p \in Paths : (~a.filter_given \/ p \notin a.tree) => a.filter[p] = "True"}

\* listDirContents: decode, getClient, then the walk from the path
listDirContents(a, failAt) ==
    /\ binding = "cfs"
    /\ pc = "idle"
    /\ LET g == cfsGetClient(failAt)
           built == a.decodeOK /\ g.built
           w == WalkDir(a)
       IN  /\ built => Len(made) < MaxClients
           /\ cf' = IF built THEN g.cf ELSE cf
           /\ made' = IF built THEN Append(made, g.cf) ELSE made
           /\ req' = CharmReq(IF a.decodeOK THEN g.cf ELSE NilFS)
           /\ trace' = IF ~a.decodeOK THEN <<>>
                       ELSE IF g.err # NilErr THEN g.steps
                       ELSE g.steps \o <<"listdir">>
           /\ out' = IF ~a.decodeOK THEN Returned(GoNil, Err("listdir: bad arguments"))
                     ELSE IF g.err # NilErr THEN Returned(GoNil, g.err)
                     ELSE IF failAt = "op"
                     THEN Returned(GoNil, Err("listdir: file system error"))
                     ELSE IF w.ret = "err" THEN Returned(GoNil, Err("listdir: " \o w.msg))
                     ELSE Returned(StarList(w.sl), NilErr)
    /\ call' = a
    /\ pc' = "done"
    /\ UNCHANGED <<cli, loopI, err, resp, dbs,
                   binding, ctor, configs, source, loaded, exposed, ret, lastRead, scriptMsgs>>

defaultDB == "starcli.kv.user.default"

\* m.dbs[name] = db
Cache(name, db) ==
    [n \in DOMAIN dbs \cup {name} |-> IF n = name THEN db ELSE dbs[n]]

\* delete(m, name) on a map m
Delete(m, name) == [n \in DOMAIN m \ {name} |-> m[n]]

\* a getDBClient that caches the client under the name as given
getDBClient_rawName(name, failAt) ==
    LET eff == IF name = "" THEN defaultDB ELSE name
        c == InitializeClient(failAt)
        Fail(e, st) == [db |-> NilFS, err |-> e, built |-> FALSE, steps |-> st, name |-> name]
    IN  IF name \in DOMAIN dbs
        THEN [db |-> dbs[name], err |-> NilErr, built |-> FALSE, steps |-> <<>>, name |-> name]
        ELSE IF c.err # NilErr THEN Fail(c.err, c.steps)
        ELSE IF failAt = "path" THEN Fail(Err("charm: data path"), c.steps \o <<"DataPath">>)
        ELSE IF failAt = "open"
        THEN Fail(Err("kv: open"), c.steps \o <<"DataPath", "kv.Open">>)
        ELSE [db |-> KV(c.cc, eff), err |-> NilErr, built |-> TRUE,
              steps |-> c.steps \o <<"DataPath", "kv.Open">>, name |-> name]

\* ckv Module.getDBClient: the client cached under the effective name, or a
\* new one to cache there
getDBClient(name, failAt) ==
    LET eff == IF name = "" THEN defaultDB ELSE name
        c == InitializeClient(failAt)
        Fail(e, st) == [db |-> NilFS, err |-> e, built |-> FALSE, steps |-> st, name |-> eff]
    IN  IF eff \in DOMAIN dbs
        THEN [db |-> dbs[eff], err |-> NilErr, built |-> FALSE, steps |-> <<>>, name |-> eff]
        ELSE IF c.err # NilErr THEN Fail(c.err, c.steps)
        ELSE IF failAt = "path" THEN Fail(Err("charm: data path"), c.steps \o <<"DataPath">>)
        ELSE IF failAt = "open"
        THEN Fail(Err("kv: open"), c.steps \o <<"DataPath", "kv.Open">>)
        ELSE [db |-> KV(c.cc, eff), err |-> NilErr, built |-> TRUE,
              steps |-> c.steps \o <<"DataPath", "kv.Open">>, name |-> eff]

KVOps == {"get", "set", "get_json", "set_json", "delete",
          "list", "list_keys", "list_values", "sync"}

\* what a ckv operation returns when nothing fails
KVValue(op) ==
    CASE op \in {"get", "get_json"} -> Scalar("string", "value")
      [] op \in {"list", "list_keys", "list_values"} -> StarList(<<Scalar("string", "key")>>)
      [] OTHER -> None

\* getString, setString, getJSON, setJSON, deleteKey, listAll, listKeys,
\* listValues, syncDB: decode, getDBClient, then the operation on the client
kvCall(op, name, decodeOK, failAt) ==
    /\ binding = "ckv"
    /\ pc = "idle"
    /\ LET g == getDBClient(name, failAt)
           built == decodeOK /\ g.built
       IN  /\ built => Len(made) < MaxClients
           /\ dbs' = IF built THEN Cache(g.name, g.db) ELSE dbs
           /\ made' = IF built THEN Append(made, g.db) ELSE made
           /\ req' = CharmReq(IF decodeOK THEN g.db ELSE NilFS)
           /\ trace' = IF ~decodeOK THEN <<>>
                       ELSE IF g.err # NilErr THEN g.steps
                       ELSE g.steps \o <<op>>
           /\ out' = IF ~decodeOK THEN Returned(None, Err(op \o ": bad arguments"))
                     ELSE IF g.err # NilErr THEN Returned(None, g.err)
                     ELSE IF failAt = "op" THEN Returned(None, Err(op \o ": kv error"))
                     ELSE Returned(KVValue(op), NilErr)
    /\ call' = CharmArgs(op, decodeOK, name)
    /\ pc' = "done"
    /\ UNCHANGED <<cli, loopI, err, resp, cf,
                   binding, ctor, configs, source, loaded, exposed, ret, lastRead, scriptMsgs>>

\* resetLocalCopy: getDBClient, Reset, then delete(m.dbs, db) with the name
\* as the script gave it
resetLocalCopy(name, decodeOK, failAt) ==
    /\ binding = "ckv"
    /\ pc = "idle"
    /\ LET g == getDBClient(name, failAt)
           built == decodeOK /\ g.built
           opened == IF built THEN Cache(g.name, g.db) ELSE dbs
       IN  /\ built => Len(made) < MaxClients
           /\ dbs' = IF decodeOK /\ g.err = NilErr /\ failAt # "op"
                     THEN Delete(opened, name) ELSE opened
           /\ made' = IF built THEN Append(made, g.db) ELSE made
           /\ req' = CharmReq(IF decodeOK THEN g.db ELSE NilFS)
           /\ trace' = IF ~decodeOK THEN <<>>
                       ELSE IF g.err # NilErr THEN g.steps
                       ELSE g.steps \o <<"reset">>
           /\ out' = IF ~decodeOK THEN Returned(None, Err("reset: bad arguments"))
                     ELSE IF g.err # NilErr THEN Returned(None, g.err)
                     ELSE IF failAt = "op" THEN Returned(None, Err("reset: kv error"))
                     ELSE Returned(None, NilErr)
    /\ call' = CharmArgs("reset", decodeOK, name)
    /\ pc' = "done"
    /\ UNCHANGED <<cli, loopI, err, resp, cf,
                   binding, ctor, configs, source, loaded, exposed, ret, lastRead, scriptMsgs>>

\* listDB: a client of its own on every call, nothing cached
listDB(decodeOK, failAt) ==
    /\ binding = "ckv"
    /\ pc = "idle"
    /\ LET c == InitializeClient(failAt)
       IN  /\ req' = CharmReq(IF decodeOK THEN c.cc ELSE NilFS)
           /\ trace' = IF ~decodeOK THEN <<>>
                       ELSE IF c.err # NilErr THEN c.steps
                       ELSE IF failAt = "path" THEN c.steps \o <<"DataPath">>
                       ELSE c.steps \o <<"DataPath", "list_db">>
           /\ out' = IF ~decodeOK THEN Returned(None, Err("list_db: bad arguments"))
                     ELSE IF c.err # NilErr THEN Returned(None, c.err)
                     ELSE IF failAt = "path" THEN Returned(None, Err("charm: data path"))
                     ELSE IF failAt = "op" THEN Returned(GoNil, Err("list_db: read dir"))
                     ELSE Returned(StarList(<<Scalar("string", defaultDB)>>), NilErr)
    /\ call' = CharmArgs("list_db", decodeOK, "")
    /\ pc' = "done"
    /\ UNCHANGED <<cli, loopI, err, resp, made, cf, dbs,
                   binding, ctor, configs, source, loaded, exposed, ret, lastRead, scriptMsgs>>

----------------------------------------------------------------------------
(* Script calls on an llm, cfs or ckv binding whose configuration changes *)

\* the getters a host builds the bindings with: a key is left unset, bound to
\* a value, or bound to a producer whose value changes later
ClientCtorGetters(b) ==
    IF b = "llm"
    THEN [openai_provider : {NilGetter, FnGetter(1)}
                              \cup {ConstGetter(v) : v \in {"openai", "OpenAI", "azure", "AZURE", "bogus"}},
          openai_endpoint_url : {NilGetter, ConstGetter("http://e")},
          openai_api_key : {NilGetter, FnGetter(1)},
          openai_gpt_model : {NilGetter, FnGetter(1), ConstGetter("gpt")},
          openai_dalle_model : {NilGetter, ConstGetter("dalle")}]
    ELSE [host : {NilGetter, FnGetter(1)},
          data_dir : {NilGetter},
          key_file : {NilGetter},
          ssh_port : {NilGetter, ConstGetter(Itoa(0)), ConstGetter("x")},
          http_port : {NilGetter}]

\* the chat and draw calls of such a script
ClientChatArgs ==
    {a \in ChatArgs :
        /\ a.decodeOK /\ a.text = "hi" /\ a.messages = <<>> /\ a.n = 1
        /\ a.response_format = "text" /\ ~a.retry_given
        /\ ~a.full_response /\ ~a.allow_error}

ClientDrawArgs ==
    {a \in DrawArgs :
        /\ a.decodeOK /\ a.prompt # "" /\ a.n = 1
        /\ a.response_format = "url" /\ ~a.retry_given
        /\ ~a.full_response /\ ~a.allow_error}

\* the stores a script names
KVNames == {"", defaultDB, "other"}

\* listdir calls without a filter on the full file system
ClientListArgs == {a \in ListArgs : ~a.filter_given /\ a.tree = Paths /\ ~a.recursive}

InitClient ==
    /\ binding \in {"llm", "cfs", "ckv"}
    /\ ctor = "NewModuleWithGetter"
    /\ \E getters \in ClientCtorGetters(binding) :
          configs = NewModuleWithGetter(binding, getters)
    /\ source \in [Producers -> Values]
    /\ loaded = FALSE
    /\ exposed = {}
    /\ ret = NoRet
    /\ lastRead = NoRead
    /\ CallIdle

\* one script call at a time; between calls what a producer yields may change
NextClient ==
    \/ pc = "idle" /\ binding = "llm" /\ \E a \in ClientChatArgs : chat(a)
    \/ pc = "idle" /\ binding = "llm" /\ \E a \in ClientDrawArgs : draw(a)
    \/ Attempt(NetError, NoResp)
    \/ pc = "invoke" /\ \E r \in {x \in Responses(call.op) : Len(x) = 1} : Attempt(NilErr, r)
    \/ Shape(TRUE)
    \/ \E a \in ClientListArgs, failAt \in FailPoints : listDirContents(a, failAt)
    \/ \E op \in CfsOps, decodeOK \in BOOLEAN, failAt \in FailPoints :
          cfsCall(op, decodeOK, failAt)
    \/ \E op \in KVOps, name \in KVNames, decodeOK \in BOOLEAN, failAt \in FailPoints :
          kvCall(op, name, decodeOK, failAt)
    \/ \E name \in KVNames, decodeOK \in BOOLEAN, failAt \in FailPoints :
          resetLocalCopy(name, decodeOK, failAt)
    \/ \E decodeOK \in BOOLEAN, failAt \in FailPoints : listDB(decodeOK, failAt)
    \/ pc = "idle" /\ \E p \in Producers, v \in Values : SourceChange(p, v)
    \/ Return

SpecClient == InitClient /\ [][NextClient]_vars

----------------------------------------------------------------------------
(* A script builds records with message and passes them to chat *)

MaxMsgs == 2        \* most records a script builds before it calls chat

\* the arguments of message; '' stands for an argument that is None, empty or
\* left out, and role_given tells a role that is left out from one that is
\* None or empty
MessageArgs ==
    {m \in [role_given : BOOLEAN, role : {"", "system"}, text : {"", "hi", "yo"},
             image : {""}, image_file : {"", "ok.png"}, image_url : {""}] :
        ~m.role_given => m.role = ""}

\* a script calls message and appends the record to its list
message(m) ==
    /\ binding = "llm"
    /\ pc = "idle"
    /\ Len(scriptMsgs) < MaxMsgs
    /\ scriptMsgs' = Append(scriptMsgs, [arg |-> m, md |-> newMessageStruct(m)])
    /\ UNCHANGED <<cli, pc, call, req, loopI, err, resp, trace, out, made, cf, dbs,
                   binding, ctor, configs, source, loaded, exposed, ret, lastRead>>

\* the records of the script's list, in order
Records == [i \in 1..Len(scriptMsgs) |-> scriptMsgs[i].md]

MessageChatArgs ==
    {a \in ChatArgs :
        /\ a.messages = <<>> /\ a.model = "m" /\ a.n = 1 /\ a.response_format = "text"
        /\ ~a.retry_given /\ ~a.full_response /\ ~a.allow_error}

InitMessage ==
    /\ binding = "llm"
    /\ ctor = "NewModuleWithConfig"
    /\ \E vals \in CallCtorValues(binding) :
          /\ vals.openai_provider = "openai"
          /\ configs = NewModuleWithConfig(binding, vals)
    /\ source \in [Producers -> {ZeroValue}]
    /\ loaded = FALSE
    /\ exposed = {}
    /\ ret = NoRet
    /\ lastRead = NoRead
    /\ CallIdle

NextMessage ==
    \/ pc = "idle" /\ \E m \in MessageArgs : message(m)
    \/ pc = "idle" /\ \E a \in MessageChatArgs : chat([a EXCEPT !.messages = Records])
    \/ Attempt(NetError, NoResp)
    \/ pc = "invoke" /\ Attempt(NilErr, <<"x">>)
    \/ Shape(TRUE)

SpecMessage == InitMessage /\ [][NextMessage]_vars

----------------------------------------------------------------------------
(* A script lists a directory of the Charm file system *)

InitList ==
    /\ binding = "cfs"
    /\ ctor = "NewModule"
    /\ configs = NewModule(binding)
    /\ source \in [Producers -> {ZeroValue}]
    /\ loaded = FALSE
    /\ exposed = {}
    /\ ret = NoRet
    /\ lastRead = NoRead
    /\ CallIdle

NextList ==
    \/ \E a \in {x \in ListArgs : x.filter_given}, failAt \in {"none", "op"} :
          listDirContents(a, failAt)
    \/ \E a \in {x \in ListArgs : ~x.filter_given}, failAt \in {"none", "op"} :
          listDirContents(a, failAt)

SpecList == InitList /\ [][NextList]_vars

----------------------------------------------------------------------------
(* Properties of the configuration store *)

SetOps == {"SetConfig", "SetConfigValue", "set_"}

Bound(k) == k \in DOMAIN configs

\* C1: after SetConfig(k, fn) the key is bound to the producer fn itself, and
\* every GetConfig(k) on a key bound to a producer returns the value the
\* producer yields at the time of the read.
C1_ReadThrough ==
    /\ (ret.op = "SetConfig" /\ ret.getter.kind = "fn")
          => (Bound(ret.key) /\ configs[ret.key] = ret.getter)
    /\ (ret.op = "GetConfig" /\ Bound(ret.key) /\ configs[ret.key].kind = "fn")
          => (ret.err = "none" /\ ret.val = source[configs[ret.key].src])

\* two reads of a producer-bound key, with no rebinding between them, that
\* returned different values
C1_Witness ==
    /\ ret.op = "GetConfig"
    /\ Bound(ret.key)
    /\ configs[ret.key].kind = "fn"
    /\ lastRead.key = ret.key
    /\ lastRead.err = "none"
    /\ lastRead.val # ret.val

\* C2: GetConfig(k) returns the not-set error and the zero value when k is
\* not in the store or its producer is nil; a key enters the store only by a
\* successful SetConfig, SetConfigValue or generated setter on that key, so no
\* GetConfig succeeds on a key nothing has bound.
C2_NotSet ==
    /\ []((ret.op = "GetConfig" /\ (~Bound(ret.key) \/ configs[ret.key].kind = "nil"))
            => (ret.err = "not_set" /\ ret.val = ZeroValue))
    /\ []((ret.op = "GetConfig" /\ ret.err = "none") => Bound(ret.key))
    /\ [][\A k \in (DOMAIN configs') \ (DOMAIN configs) :
            ret'.op \in SetOps /\ ret'.key = k /\ ret'.err = "none"]_vars

\* a failed read of a key bound to a nil producer, and of a key never bound
\* while another key is bound
C2_Witness ==
    /\ ret.op = "GetConfig"
    /\ ret.err = "not_set"
    /\ \/ Bound(ret.key) /\ configs[ret.key].kind = "nil"
       \/ ~Bound(ret.key) /\ DOMAIN configs # {}

\* the binding a successful set operation asked for
Asked(r) == IF r.op = "set_" THEN ConstGetter(r.args[1].str) ELSE r.getter

\* C3: a set operation binds its key to the binding just asked for, whatever
\* the key was bound to before; SetConfig and SetConfigValue never fail and a
\* generated setter given one string never fails; every step leaves the
\* binding of every key other than the one it set unchanged.
C3_LastWriteWins ==
    /\ []((ret.op \in SetOps /\ ret.err = "none")
            => (Bound(ret.key) /\ configs[ret.key] = Asked(ret)))
    /\ [](ret.op \in {"SetConfig", "SetConfigValue"} => ret.err = "none")
    /\ []((ret.op = "set_" /\ Len(ret.args) = 1 /\ ret.args[1].type = "string")
            => ret.err = "none")
    /\ [][\A k \in DOMAIN configs :
            (~(ret'.op \in SetOps /\ ret'.key = k /\ ret'.err = "none"))
                => (k \in DOMAIN configs' /\ configs'[k] = configs[k])]_vars

\* a setter exists only for a key that was bound when the module was loaded:
\* a successful setter call is an overwrite, here with another key bound too
C3_Witness ==
    /\ ret.op = "set_"
    /\ ret.err = "none"
    /\ configs[ret.key] = ConstGetter(ret.args[1].str)
    /\ \E k \in DOMAIN configs : k # ret.key

\* one positional string: the only call a setter of a string store accepts
GoodSetterCall(as) == Len(as) = 1 /\ as[1].type = "string"

\* C4: a generated setter called with missing or extra arguments, or with a
\* value that does not decode to a string, returns an error and leaves the
\* store as it was; called with one string it succeeds and GetConfig of its key
\* then returns that string.
C4_SetterTypeCheck ==
    /\ []((ret.op = "set_" /\ ~GoodSetterCall(ret.args)) => ret.err # "none")
    /\ []((ret.op = "set_" /\ GoodSetterCall(ret.args))
            => /\ ret.err = "none"
               /\ GetConfigResult(ret.key) = [val |-> ret.args[1].str, err |-> "none"])
    /\ [][(ret'.op = "set_" /\ ret'.err # "none") => configs' = configs]_vars

\* an integer passed to the setter of a key that holds a non-zero string
C4_Witness ==
    /\ ret.op = "set_"
    /\ ret.err = "type_mismatch"
    /\ ret.args = <<StarInt>>
    /\ Bound(ret.key)
    /\ configs[ret.key].kind = "const"
    /\ configs[ret.key].val # ZeroValue

\* C5 as stated: whichever constructor built the binding, LoadModule exposes
\* a setter for each of its declared keys.
C5_AllConstructorsExpose == loaded => exposed = DeclaredKeys(binding)

\* C5 amended: a binding built by NewModuleWithConfig or NewModuleWithGetter
\* exposes a setter for each declared key, also for a key whose getter is nil;
\* a binding built by NewModule exposes no setter.
C5_ConfiguredConstructorsExpose ==
    loaded => exposed = (IF ctor = "NewModule" THEN {} ELSE DeclaredKeys(binding))

\* a script has set a key whose injected getter was nil
C5_Witness ==
    /\ loaded
    /\ ctor = "NewModuleWithGetter"
    /\ exposed = DeclaredKeys(binding)
    /\ ret.op = "set_"
    /\ ret.err = "none"
    /\ \E k \in DOMAIN configs : configs[k].kind = "nil"

----------------------------------------------------------------------------
(* Properties of the chat, draw and send calls *)

LLMCall == call.op \in {"chat", "draw"}

Invocations == Len(trace)

LastAnswer == trace[Len(trace)]

\* the provider's answer was an API error with HTTP status 400
BadRequestAnswer(e) == e = APIError(400)

\* the provider's answer was a failure other than a bad request
RetryableAnswer(e) == e # NilErr /\ ~BadRequestAnswer(e)

\* the handler has left its retry loop
Finishing == pc \in {"shape", "done"}

\* C6: in chat and draw a bad-request answer is the last invocation of the
\* call whatever the retry budget: the loop is left at once, and with the
\* error kept as the call's error.
C6_FailFast ==
    LLMCall =>
        /\ \A n \in 1..Invocations : BadRequestAnswer(trace[n]) => n = Invocations
        /\ (Invocations > 0 /\ BadRequestAnswer(LastAnswer))
              => (Finishing /\ err = LastAnswer)
        /\ (pc = "done" /\ Invocations > 0 /\ BadRequestAnswer(LastAnswer)
              /\ ~call.allow_error) => out = Returned(None, LastAnswer)

\* retry=3, a bad request on the first attempt: one invocation, that error
C6_Witness ==
    /\ pc = "done"
    /\ LLMCall
    /\ call.retry = 3
    /\ trace = <<APIError(400)>>
    /\ out = Returned(None, APIError(400))

\* C7: in chat and draw with retry r >= 1 the provider is invoked at most r
\* times and never after a success; the loop goes on after a retryable failure
\* while attempts remain, so a success at attempt k+1 follows k retryable
\* failures and ends the call with that response and no error of an earlier
\* attempt, and r retryable failures end it with the last one's error; a call
\* without a retry argument that reaches the provider invokes it exactly once.
C7_BoundedRetry ==
    (LLMCall /\ call.retry >= 1) =>
        /\ Invocations <= call.retry
        /\ \A n \in 1..(Invocations - 1) : RetryableAnswer(trace[n])
        /\ (Finishing /\ req # NoReq) => Invocations >= 1
        /\ (Finishing /\ Invocations > 0 /\ RetryableAnswer(LastAnswer))
              => (Invocations = call.retry /\ err = LastAnswer)
        /\ (Finishing /\ Invocations > 0 /\ LastAnswer = NilErr) => err = NilErr
        /\ (pc = "done" /\ Invocations > 0 /\ LastAnswer = NilErr)
              => out.err \notin ProviderErrors
        /\ (pc = "done" /\ Invocations > 0 /\ RetryableAnswer(LastAnswer)
              /\ ~call.allow_error) => out = Returned(None, LastAnswer)
        /\ (pc = "done" /\ req # NoReq /\ ~call.retry_given) => Invocations = 1

\* retry=3, two retryable failures, then a success that is returned
C7_Witness ==
    /\ pc = "done"
    /\ call.op = "chat"
    /\ call.retry = 3
    /\ trace = <<NetError, APIError(500), NilErr>>
    /\ resp = <<"x">>
    /\ out = Returned(Scalar("string", "x"), NilErr)

\* the call with the other value of allow_error
FlipAllow(a) == [a EXCEPT !.allow_error = ~a.allow_error]

\* C8: when the retry loop of chat or draw ends in a provider failure the call
\* returns None without error if allow_error is set and that error otherwise;
\* allow_error decides neither whether the loop goes on nor what a call
\* returns after a successful invocation.
C8_AllowError ==
    LLMCall =>
        /\ (pc = "done" /\ Invocations > 0 /\ LastAnswer # NilErr)
              => out = (IF call.allow_error THEN Returned(None, NilErr)
                        ELSE Returned(None, LastAnswer))
        /\ (pc = "invoke")
              => (Invocations < call.retry
                    /\ (Invocations > 0 => RetryableAnswer(LastAnswer)))
        /\ (Finishing /\ req # NoReq /\ call.retry >= 1)
              => (Invocations > 0
                    /\ (RetryableAnswer(LastAnswer) => Invocations = call.retry))
        /\ (pc = "done" /\ Invocations > 0 /\ LastAnswer = NilErr)
              => out \in {ShapeOutcome(FlipAllow(call), NilErr, resp, m) : m \in BOOLEAN}

\* allow_error=true, every attempt failed: None and no error
C8_Witness ==
    /\ pc = "done"
    /\ LLMCall
    /\ call.allow_error
    /\ call.retry = 2
    /\ trace = <<NetError, NetError>>
    /\ out = Returned(None, NilErr)

\* the value of a configuration key, if it has one
Configured(k) == Bound(k) /\ configs[k].kind # "nil"

\* a message record that messagesToChatMessages rejects
BadRecord(md) ==
    \/ "role" \notin DOMAIN md
    \/ DOMAIN md \cap {"text", "image", "image_file", "image_url"} = {}
    \/ "image_file" \in DOMAIN md /\ md["image_file"].str \notin ReadableFiles

\* no model: neither the argument nor the configured key gives one
NoModel(a) ==
    LET key == IF a.op = "chat" THEN "openai_gpt_model" ELSE "openai_dalle_model"
    IN  a.model = "" /\ (~Configured(key) \/ Invoke(configs[key]) = "")

\* no client: none injected and the configuration does not yield one
NoClient ==
    /\ cli = NilClient
    /\ \/ ~Configured("openai_api_key")
       \/ /\ Configured("openai_provider")
          /\ Invoke(configs["openai_provider"]) \notin {"openai", "OpenAI", "azure", "Azure", "AZURE"}
       \/ /\ Configured("openai_provider")
          /\ Invoke(configs["openai_provider"]) \in {"azure", "Azure", "AZURE"}
          /\ ~Configured("openai_endpoint_url")

\* a chat or draw call that cannot reach the provider
LLMDefect(a) ==
    \/ ~a.decodeOK
    \/ NoModel(a)
    \/ a.op = "draw" /\ a.prompt = ""
    \/ a.op = "chat" /\ \E n \in 1..Len(a.messages) : BadRecord(a.messages[n])
    \/ a.op = "chat" /\ a.image_file # "" /\ a.image_file \notin ReadableFiles
    \/ a.op = "chat" /\ a.response_format \notin {"text", "json"}
    \/ NoClient

\* an image the simplified draw response cannot be built from
BadImage(di) == di.b64 \notin {"b64:png1", "b64:png1x", "b64:png2"}

\* a successful draw response whose conversion to bytes fails
DrawConversionFails(a, r) ==
    /\ a.op = "draw"
    /\ ~a.full_response
    /\ a.response_format \notin {"url", "URL", "Url"}
    /\ IF a.n = 1 THEN Len(r) > 0 /\ BadImage(r[1])
       ELSE \E n \in 1..Len(r) : BadImage(r[n])

\* C9: allow_error hides provider failures only: a chat or draw call that
\* returns without error had good arguments, a model, valid messages, a
\* supported response format and a client, and converted its response; and
\* it returns None without error only after a provider failure with
\* allow_error set, or for a chat response without choices.
C9_AllowErrorOnlyProvider ==
    (LLMCall /\ pc = "done" /\ ~out.panic /\ out.err = NilErr) =>
        /\ ~LLMDefect(call)
        /\ ~(Invocations > 0 /\ LastAnswer = NilErr /\ DrawConversionFails(call, resp))
        /\ out.val = None
              => \/ call.allow_error /\ Invocations > 0 /\ LastAnswer # NilErr
                 \/ call.op = "chat" /\ ~call.full_response /\ Len(resp) = 0 /\ err = NilErr
        /\ (call.full_response /\ err = NilErr) => out.val.type = "struct"

\* allow_error=true and no client can be built: the error is returned
C9_Witness ==
    /\ pc = "done"
    /\ LLMCall
    /\ call.allow_error
    /\ call.decodeOK
    /\ ~NoModel(call)
    /\ NoClient
    /\ Invocations = 0
    /\ out.err # NilErr

\* a send call that cannot reach the provider
SendDefect(a) ==
    LET domain == IF Configured("sender_domain") THEN Invoke(configs["sender_domain"]) ELSE ""
    IN  \/ ~Configured("resend_api_key")
        \/ ~a.decodeOK
        \/ \A b \in {a.html, a.text, a.markdown} : IsBlank(b)
        \/ Len(a.to) = 0
        \/ IsBlank(a.from) /\ (IsBlank(a.from_id) \/ IsBlank(domain))
        \/ IsBlank(a.reply_to) /\ ~IsBlank(a.reply_id) /\ IsBlank(domain)
        \/ \E n \in 1..Len(a.attachment_file) : a.attachment_file[n] \notin ReadableFiles
        \/ \E n \in 1..Len(a.attachment) : ~({"name", "content"} \subseteq DOMAIN a.attachment[n])

Defect(a) == IF a.op = "send" THEN SendDefect(a) ELSE LLMDefect(a)

\* C10: in send, chat and draw the provider is invoked only in a call whose
\* decoding, validation, request building and client acquisition succeeded;
\* a call with a failure in one of them ends with an error and without any
\* provider invocation.
C10_PipelineOrder ==
    call.op \in {"chat", "draw", "send"} =>
        /\ (Invocations > 0 \/ pc \in {"invoke", "shape"}) => (~Defect(call) /\ req # NoReq)
        /\ Defect(call) => (pc = "done" /\ Invocations = 0 /\ out.err # NilErr /\ ~out.panic)

\* a send whose only defect is an attachment file that cannot be read
C10_Witness ==
    /\ pc = "done"
    /\ call.op = "send"
    /\ ~SendDefect([call EXCEPT !.attachment_file = <<>>])
    /\ call.attachment_file = <<"missing.png">>
    /\ Invocations = 0
    /\ out.err # NilErr

----------------------------------------------------------------------------
(* Properties of the clients an instance constructs and caches *)

\* C11: an llm module without an injected client constructs at most one
\* client, and every chat or draw call that acquired a client works on the
\* first one constructed, whatever the configuration has become since.
C11_ClientCachedOnce ==
    (binding = "llm" /\ cli = NilClient) =>
        /\ Len(made) <= 1
        /\ (pc # "idle" /\ req # NoReq) => req.client = made[1]

\* a cfs call has just returned
CfsDone == binding = "cfs" /\ pc = "done"

\* C12: a cfs module constructs at most one filesystem client; the cache holds
\* exactly the client constructed, a failed construction leaves it empty, and
\* every call that gets a client works on the cached one: a call that finds
\* the cache filled makes no construction step, and a call that finds it
\* empty attempts the construction again.
C12_FsClientCachedOnce ==
    /\ [](binding = "cfs" =>
          /\ Len(made) <= 1
          /\ (cf = NilFS) <=> (made = <<>>)
          /\ cf # NilFS => cf = made[1]
          /\ (pc = "done" /\ call.decodeOK /\ req.client # NilFS) => req.client = cf
          /\ (pc = "done" /\ call.decodeOK /\ out.err = NilErr) => cf # NilFS)
    /\ [][(binding = "cfs" /\ pc = "idle" /\ pc' = "done" /\ call'.decodeOK)
            => IF cf # NilFS
               THEN cf' = cf /\ made' = made /\ req'.client = cf
                    /\ trace' \in {<<>>, <<call'.op>>}
               ELSE /\ Len(trace') > 0 /\ trace'[1] = "ConfigFromEnv"
                    /\ cf' # NilFS => (made' = <<cf'>> /\ req'.client = cf')
                    /\ cf' = NilFS => (made' = made /\ out'.err # NilErr)]_vars

\* the client was constructed, the host's value changed, and a later call
\* makes no construction step and works on the cached client
C12_Witness ==
    /\ CfsDone
    /\ call.decodeOK
    /\ Len(made) = 1
    /\ req.client = made[1]
    /\ trace = <<call.op>>
    /\ out.err = NilErr
    /\ ret.op = "SourceChange"
    /\ configs["host"].kind = "fn"
    /\ req.client.cc.cfg.host # Invoke(configs["host"])

\* the store a ckv call works on
EffectiveName(name) == IF name = "" THEN "starcli.kv.user.default" ELSE name

\* a ckv handler that goes through getDBClient has run from decode to return
KVStep ==
    /\ binding = "ckv"
    /\ pc = "idle"
    /\ pc' = "done"
    /\ call'.op # "list_db"
    /\ call'.decodeOK

\* C13: with one ckv call at a time, the cache holds each client under the
\* effective name it was opened for (never under the empty name); a call
\* whose effective name is cached works on the cached client and opens
\* nothing; a call whose effective name is not cached opens a client for
\* that name and caches it there, and a failed open leaves the cache as it
\* was.  (reset afterwards deletes the entry of the name it was given.)
C13_KeyedClientCache ==
    /\ [](binding = "ckv" =>
          /\ \A n \in DOMAIN dbs : n # "" /\ dbs[n].kind = "kv" /\ dbs[n].name = n
          /\ \A n \in DOMAIN dbs : \E m \in 1..Len(made) : made[m] = dbs[n])
    /\ [][KVStep =>
            LET eff == EffectiveName(call'.name)
                left(d) == IF call'.op = "reset" /\ out'.err = NilErr
                           THEN Delete(d, call'.name) ELSE d
            IN  IF eff \in DOMAIN dbs
                THEN /\ req'.client = dbs[eff]
                     /\ made' = made
                     /\ trace' = <<call'.op>>
                     /\ dbs' = left(dbs)
                ELSE /\ Len(trace') > 0 /\ trace'[1] = "ConfigFromEnv"
                     /\ IF made' # made
                        THEN /\ made' = Append(made, req'.client)
                             /\ req'.client.name = eff
                             /\ dbs' = left([n \in DOMAIN dbs \cup {eff} |->
                                               IF n = eff THEN req'.client ELSE dbs[n]])
                        ELSE dbs' = dbs /\ out'.err # NilErr]_vars

\* two stores are open, and a call with the empty name works on the client
\* cached under the default name without opening anything
C13_Witness ==
    /\ binding = "ckv"
    /\ pc = "done"
    /\ call.op = "get"
    /\ call.name = ""
    /\ DOMAIN dbs = {"starcli.kv.user.default", "other"}
    /\ Len(made) = 2
    /\ req.client = dbs["starcli.kv.user.default"]
    /\ trace = <<"get">>
    /\ out.err = NilErr

\* the configured provider, "openai" if the key is unset
ProviderValue ==
    IF Configured("openai_provider") THEN Invoke(configs["openai_provider"]) ELSE "openai"

IsOpenAI(p) == p \in {"openai", "OpenAI", "OPENAI"}

IsAzure(p) == p \in {"azure", "Azure", "AZURE"}

\* the call passed every step before client acquisition
ReachedClient ==
    /\ LLMCall
    /\ pc # "idle"
    /\ cli = NilClient
    /\ call.decodeOK
    /\ ~NoModel(call)
    /\ call.op = "draw" => call.prompt # ""
    /\ call.op = "chat" => (/\ \A n \in 1..Len(call.messages) : ~BadRecord(call.messages[n])
                            /\ call.response_format \in {"text", "json"})

\* C14: with no injected client and the API key configured, the provider
\* value selects the client whatever its letter case: 'openai', or an unset
\* key, the OpenAI client; 'azure' the Azure client; any other value, the
\* empty string included, ends the call with an 'unsupported provider' error
\* and no provider invocation.
C14_ProviderSelection ==
    (ReachedClient /\ Configured("openai_api_key")) =>
        /\ IsOpenAI(ProviderValue) => (req # NoReq /\ req.client.kind = "openai")
        /\ (IsAzure(ProviderValue) /\ Configured("openai_endpoint_url"))
              => (req # NoReq /\ req.client.kind = "azure")
        /\ (~IsOpenAI(ProviderValue) /\ ~IsAzure(ProviderValue))
              => /\ pc = "done"
                 /\ out = Returned(GoNil, Err("unsupported provider: " \o ProviderValue))
                 /\ Invocations = 0

\* provider 'AZURE' with key and endpoint configured: the Azure client is used
C14_Witness ==
    /\ ReachedClient
    /\ pc = "done"
    /\ Configured("openai_api_key")
    /\ ProviderValue = "AZURE"
    /\ req.client.kind = "azure"
    /\ Invocations = 1
    /\ out.err = NilErr

\* C15: with no injected client, an unset openai_api_key ends the call with
\* the error naming openai_api_key whatever the provider value is; with the
\* key set and provider 'azure', an unset openai_endpoint_url ends it with the
\* error naming openai_endpoint_url; with provider 'openai' an unset endpoint
\* URL is no error.
C15_MissingConfig ==
    ReachedClient =>
        /\ ~Configured("openai_api_key")
              => /\ pc = "done"
                 /\ out = Returned(GoNil, Err("config openai_api_key not set"))
                 /\ Invocations = 0
        /\ (Configured("openai_api_key") /\ IsAzure(ProviderValue)
              /\ ~Configured("openai_endpoint_url"))
              => /\ pc = "done"
                 /\ out = Returned(GoNil, Err("config openai_endpoint_url not set"))
                 /\ Invocations = 0
        /\ (Configured("openai_api_key") /\ IsOpenAI(ProviderValue)
              /\ ~Configured("openai_endpoint_url"))
              => (req # NoReq /\ req.client.kind = "openai" /\ (pc = "done" => Invocations > 0))

\* an unsupported provider value and no API key: the error names the key
C15_Witness ==
    /\ ReachedClient
    /\ pc = "done"
    /\ ProviderValue = "bogus"
    /\ ~Configured("openai_api_key")
    /\ out = Returned(GoNil, Err("config openai_api_key not set"))

ModelKey(a) == IF a.op = "chat" THEN "openai_gpt_model" ELSE "openai_dalle_model"

\* C16: chat and draw use a non-empty model argument whatever is configured,
\* and otherwise the current value of openai_gpt_model or openai_dalle_model;
\* a call with neither ends with the 'model is not set' error, and it has
\* constructed no client and invoked no provider.
C16_ModelResolution ==
    /\ []((LLMCall /\ pc # "idle" /\ req # NoReq) =>
          req.model = (IF call.model # "" THEN call.model
                       ELSE Invoke(configs[ModelKey(call)])))
    /\ [][(pc = "idle" /\ pc' # "idle" /\ call'.op \in {"chat", "draw"}
            /\ call'.decodeOK /\ (call'.op = "draw" => call'.prompt # "")
            /\ call'.model = ""
            /\ (~Configured(ModelKey(call')) \/ Invoke(configs[ModelKey(call')]) = ""))
            => /\ pc' = "done"
               /\ out' = Returned(None, Err((IF call'.op = "chat" THEN "gpt" ELSE "dalle")
                                            \o " model is not set"))
               /\ made' = made
               /\ trace' = <<>>]_vars

\* no model argument: the call uses the value the producer behind
\* openai_gpt_model yields now, after it changed
C16_Witness ==
    /\ LLMCall
    /\ pc = "done"
    /\ call.op = "chat"
    /\ call.model = ""
    /\ configs["openai_gpt_model"].kind = "fn"
    /\ ret.op = "SourceChange"
    /\ req.model = "a"
    /\ Invocations = 1
    /\ out.err = NilErr

-----------------------------------------------------------------------------
(* Properties of the value a chat or draw call returns *)

\* the call has returned after the provider answered without an error
Succeeded(op) ==
    /\ pc = "done"
    /\ call.op = op
    /\ Invocations > 0
    /\ LastAnswer = NilErr

\* the contents of the returned choices as script strings, in provider order
ContentList == [i \in 1..Len(resp) |-> [type |-> "string", str |-> resp[i], items |-> <<>>]]

\* C17: a successful chat without full_response whose response has at least
\* one choice returns the first choice's content as one string when n = 1 was
\* asked for, and for every other n a list with one string per returned
\* choice, in the provider's order; the requested n decides, not the number
\* of choices that came back.
C17_ChatShape ==
    (Succeeded("chat") /\ ~call.full_response /\ Len(resp) >= 1) =>
        /\ ~out.panic
        /\ out.err = NilErr
        /\ call.n = 1 => out.val = ContentList[1]
        /\ call.n # 1 => out.val = [type |-> "list", str |-> "", items |-> ContentList]

\* three choices were asked for and three came back: a list of three strings
C17_Witness ==
    /\ Succeeded("chat")
    /\ ~call.full_response
    /\ call.n = 3
    /\ resp = <<"x", "y", "z">>
    /\ Len(out.val.items) = 3
    /\ out.val.items[3].str = "z"

\* C18: a successful chat without full_response whose response has no choice
\* returns None and no error, for every n; and no chat call stops on an index
\* into an empty choice list.
C18_ChatNoChoices ==
    /\ (Succeeded("chat") /\ ~call.full_response /\ Len(resp) = 0) =>
            out = [val |-> None, err |-> NilErr, panic |-> FALSE]
    /\ (pc = "done" /\ call.op = "chat") => ~out.panic

\* one choice was asked for and none came back
C18_Witness ==
    /\ Succeeded("chat")
    /\ ~call.full_response
    /\ call.n = 1
    /\ resp = <<>>
    /\ out.val = None

\* C19: with full_response a successful chat or draw returns the marshalling
\* of the whole response, for every n and every number of results, zero
\* included: a struct with one entry per result, or the marshalling's error,
\* never a bare string, bytes or list; without full_response a call never
\* returns the struct.
C19_FullResponse ==
    /\ ((Succeeded("chat") \/ Succeeded("draw")) /\ call.full_response) =>
            /\ ~out.panic
            /\ out.err = NilErr =>
                    /\ out.val.type = "struct"
                    /\ out.val.str = call.op
                    /\ Len(out.val.items) = Len(resp)
                    /\ call.op = "chat" =>
                            \A i \in 1..Len(resp) : out.val.items[i].str = resp[i]
            /\ out.err # NilErr => out.val = None
    /\ (pc = "done" /\ LLMCall /\ ~call.full_response /\ ~out.panic) =>
            out.val.type # "struct"

\* a draw for one image with full_response whose response holds no image
C19_Witness ==
    /\ Succeeded("draw")
    /\ call.full_response
    /\ call.n = 1
    /\ resp = <<>>
    /\ out.val.type = "struct"

\* the value draw returns for one image of the response
ImageValue(di) ==
    IF call.response_format \in {"url", "URL", "Url"}
    THEN [type |-> "string", str |-> di.url, items |-> <<>>]
    ELSE [type |-> "bytes", str |-> PngEncode(PngTable[Base64Table[di.b64]]), items |-> <<>>]

\* the image cannot be turned into the value draw returns
ImageFails(di) ==
    /\ call.response_format \notin {"url", "URL", "Url"}
    /\ BadImage(di)

\* C20: a successful draw without full_response returns each image as its URL
\* string when response_format is 'url' in any case, else as the bytes got by
\* decoding the payload and encoding the picture again as PNG; with n = 1 the
\* value of the first image, with every other n the list of the values of
\* all images in order; an image that fails fails the whole call, with an
\* error and no partial list.
C20_DrawShape ==
    (Succeeded("draw") /\ ~call.full_response) =>
        /\ (call.n = 1 /\ Len(resp) >= 1) =>
                IF ImageFails(resp[1])
                THEN out.err # NilErr /\ out.val = None /\ ~out.panic
                ELSE out = [val |-> ImageValue(resp[1]), err |-> NilErr, panic |-> FALSE]
        /\ call.n # 1 =>
                IF \E i \in 1..Len(resp) : ImageFails(resp[i])
                THEN out.err # NilErr /\ out.val = None /\ ~out.panic
                ELSE out = [val |-> [type |-> "list", str |-> "",
                                     items |-> [i \in 1..Len(resp) |-> ImageValue(resp[i])]],
                            err |-> NilErr, panic |-> FALSE]

\* two images asked for as payloads: a list of the two re-encoded pictures
C20_Witness ==
    /\ Succeeded("draw")
    /\ ~call.full_response
    /\ call.n = 2
    /\ call.response_format = "b64_json"
    /\ resp = <<Image("u1", "b64:png1x"), Image("u2", "b64:png2")>>
    /\ out.val.items = <<Scalar("bytes", "png1"), Scalar("bytes", "png2")>>

-----------------------------------------------------------------------------
(* Properties of the send call's validation and request *)

\* a send call has started after its configuration was read and its
\* arguments were decoded
SendStarted ==
    /\ call.op = "send"
    /\ Configured("resend_api_key")
    /\ call.decodeOK

\* the call ended with an error and the provider was not invoked
FailedUnsent == pc = "done" /\ Invocations = 0 /\ out.err # NilErr /\ ~out.panic

\* empty or white space only
Blank(str) == str \in {"", " "}

AllBodiesBlank == Blank(call.html) /\ Blank(call.text) /\ Blank(call.markdown)

\* the sender domain GetConfig yields, '' if it is not set
SenderDomain ==
    IF Configured("sender_domain") THEN Invoke(configs["sender_domain"]) ELSE ""

\* C21: a send with an empty recipient list fails without any provider
\* invocation, whatever the other arguments and the configuration are; if
\* nothing ahead of the recipient check fails, the error is the validation
\* error of the recipient list.
C21_EmptyRecipients ==
    (call.op = "send" /\ Len(call.to) = 0) =>
        /\ FailedUnsent
        /\ (SendStarted /\ ~AllBodiesBlank) =>
               out.err = [type |-> "error", status |-> 0, msg |-> "to must be set and non-empty"]

\* a send that is valid but for its empty recipient list
C21_Witness ==
    /\ SendStarted
    /\ call.to = <<>>
    /\ call.html = "<p>hi</p>"
    /\ call.from = "me@example.org"
    /\ call.attachment_file = <<>> /\ call.attachment = <<>>
    /\ pc = "done"
    /\ out.err.msg = "to must be set and non-empty"

\* a send call has passed the validation of its body and recipients
SenderReached == SendStarted /\ ~AllBodiesBlank /\ Len(call.to) > 0

\* C22: in a send that has passed the checks of body and recipients, a
\* non-blank from is the sender whatever from_id and sender_domain are;
\* else a non-blank from_id with a non-blank sender_domain gives
\* from_id@sender_domain; a non-blank from_id with sender_domain unset or
\* blank fails with the missing-domain error, and from and from_id both blank
\* fails; no failing case invokes the provider.
C22_SenderResolution ==
    SenderReached =>
        /\ (~Blank(call.from) /\ req # NoReq) => req.from = call.from
        /\ ~Blank(call.from) =>
               out.err.msg \notin {"sender_domain should be set when from_id is used",
                                   "one of from or from_id must be non-blank",
                                   "no valid from or from_id found"}
        /\ (Blank(call.from) /\ ~Blank(call.from_id) /\ ~Blank(SenderDomain)) =>
               /\ req # NoReq => req.from = call.from_id \o "@" \o SenderDomain
               /\ out.err.msg # "sender_domain should be set when from_id is used"
        /\ (Blank(call.from) /\ ~Blank(call.from_id) /\ Blank(SenderDomain)) =>
               /\ FailedUnsent
               /\ out.err.msg = "sender_domain should be set when from_id is used"
        /\ (Blank(call.from) /\ Blank(call.from_id)) =>
               /\ FailedUnsent
               /\ out.err.msg = "one of from or from_id must be non-blank"

\* from_id 'alice' with sender_domain 'example.com' was sent as
\* alice@example.com
C22_Witness ==
    /\ SenderReached
    /\ call.from = ""
    /\ call.from_id = "alice"
    /\ SenderDomain = "example.com"
    /\ pc = "done"
    /\ Invocations = 1
    /\ req.from = "alice@example.com"

\* from_id 'alice' without a configured sender_domain
C22_WitnessUnset ==
    /\ SenderReached
    /\ call.from = " "
    /\ call.from_id = "alice"
    /\ ~Configured("sender_domain")
    /\ FailedUnsent

\* C23: a send whose configuration was read and whose arguments were decoded
\* fails with the body validation error exactly when html, text and markdown
\* are all absent or blank, and then without any provider invocation; with
\* one of them non-blank the call gets past the body check.
C23_BodyRequired ==
    SendStarted =>
        /\ AllBodiesBlank =>
               /\ FailedUnsent
               /\ out.err.msg = "one of body_html, body_text, or body_markdown must be non-blank"
        /\ ~AllBodiesBlank =>
               out.err.msg # "one of body_html, body_text, or body_markdown must be non-blank"

\* a send whose three bodies are empty or white space
C23_Witness ==
    /\ SendStarted
    /\ call.html = " " /\ call.text = "" /\ call.markdown = " "
    /\ Len(call.to) > 0
    /\ call.from = "me@example.org"
    /\ FailedUnsent

\* a send whose only non-blank body is the markdown was sent
C23_WitnessPass ==
    /\ SendStarted
    /\ call.html = "" /\ call.text = "" /\ call.markdown = "# hi"
    /\ Invocations = 1
    /\ out.err = NilErr

\* the body a request should carry: the first of html, text and markdown
\* that is not blank, the markdown rendered to HTML
NonBlankBody ==
    IF ~Blank(call.html) THEN [html |-> call.html, text |-> ""]
    ELSE IF ~Blank(call.text) THEN [html |-> "", text |-> call.text]
    ELSE [html |-> RenderMarkdown(call.markdown), text |-> ""]

\* C28: a send that reaches the provider carries the body of the first
\* non-blank source among html, text and markdown; a blank html or text does
\* not displace a non-blank source after it, and no request has a blank body.
C28_BodySelection ==
    (call.op = "send" /\ req # NoReq) =>
        /\ req.body = NonBlankBody
        /\ ~(Blank(req.body.html) /\ Blank(req.body.text))

-----------------------------------------------------------------------------
(* Properties of the messages a chat call builds and sends *)

\* a chat call on the script's records has decoded its arguments
ChatOnRecords == call.op = "chat" /\ call.decodeOK /\ call.messages = Records

\* the arguments of message number i of the script's list
ArgOf(i) == scriptMsgs[i].arg

\* message number i was built with a content argument
HasContent(i) ==
    \E k \in {"text", "image", "image_file", "image_url"} : ArgOf(i)[k] # ""

\* message number i was built with a role that is None or empty
EmptyRole(i) == ArgOf(i).role_given /\ ArgOf(i).role = ""

\* 1 if the call builds a user message from its inline arguments, else 0
InlineCount ==
    IF \E k \in {"text", "image", "image_file", "image_url"} : call[k] # "" THEN 1 ELSE 0

\* the message sent for record number i keeps the text the record was built
\* with: as its content, or as a text part beside the image parts; a record
\* built from a text alone with the role left out is a user message
TextKept(i) ==
    LET sent == req.messages[i + InlineCount]
    IN  /\ ArgOf(i).text # "" =>
               \/ sent.content = ArgOf(i).text
               \/ \E n \in 1..Len(sent.parts) :
                      sent.parts[n] = [type |-> "text", body |-> ArgOf(i).text]
        /\ (ArgOf(i).text # "" /\ ArgOf(i).image_file = "" /\ ~ArgOf(i).role_given) =>
               (sent.role = "user" /\ sent.content = ArgOf(i).text)

\* C24: every record message builds with at least one content argument is
\* accepted by chat's conversion and keeps its text; a record built from a
\* text alone, the role left out, becomes a user message with that text as
\* its content.
C24_MessageRoundTrip ==
    (ChatOnRecords /\ \A i \in 1..Len(scriptMsgs) : HasContent(i)) =>
        /\ req # NoReq
        /\ Len(req.messages) = Len(scriptMsgs) + InlineCount
        /\ \A i \in 1..Len(scriptMsgs) : TextKept(i)

\* the round trip of the records built with a role that is left out or not
\* empty
RoundTripWithRole ==
    (ChatOnRecords /\ \A i \in 1..Len(scriptMsgs) : HasContent(i) /\ ~EmptyRole(i)) =>
        /\ req # NoReq
        /\ Len(req.messages) = Len(scriptMsgs) + InlineCount
        /\ \A i \in 1..Len(scriptMsgs) : TextKept(i)

\* message(text='hi') was passed to chat and sent as a user message
RoundTripWitness ==
    /\ ChatOnRecords
    /\ Len(scriptMsgs) = 1
    /\ ~ArgOf(1).role_given /\ ArgOf(1).text = "hi" /\ ArgOf(1).image_file = ""
    /\ call.text = ""
    /\ Invocations = 1
    /\ req.messages[1] = [role |-> "user", content |-> "hi", parts |-> <<>>]

ContentKeys == {"text", "image", "image_file", "image_url"}

LacksRole(md) == "role" \notin DOMAIN md

LacksContent(md) == DOMAIN md \cap ContentKeys = {}

\* the positions of the records of the call that lack a role or a content
BadPositions ==
    {i \in 1..Len(call.messages) : LacksRole(call.messages[i]) \/ LacksContent(call.messages[i])}

FirstBad == CHOOSE i \in BadPositions : \A j \in BadPositions : i <= j

\* the message a record of a role, a text and a readable image file becomes
Converted(md) ==
    IF "image_file" \in DOMAIN md
    THEN [role |-> md["role"].str, content |-> "",
          parts |-> (IF "text" \in DOMAIN md
                     THEN <<[type |-> "text", body |-> md["text"].str]>> ELSE <<>>)
                    \o <<[type |-> "image_url",
                          body |-> "data:file(" \o md["image_file"].str \o ")"]>>]
    ELSE [role |-> md["role"].str, content |-> md["text"].str, parts |-> <<>>]

\* C29: the messages of a chat request are the user message of the inline
\* arguments, if one of them is not empty, and then one message per record of
\* the messages argument, in the order given; if a record lacks a role or
\* lacks every content field the call fails with an error that names the
\* position of the first such record in that combined sequence, and the
\* provider is not invoked.
C29_MessageSequence ==
    ChatOnRecords =>
        IF BadPositions = {}
        THEN /\ req # NoReq
             /\ Len(req.messages) = InlineCount + Len(call.messages)
             /\ InlineCount = 1 =>
                    req.messages[1] = [role |-> "user", content |-> call.text, parts |-> <<>>]
             /\ \A i \in 1..Len(call.messages) :
                    req.messages[i + InlineCount] = Converted(call.messages[i])
        ELSE /\ pc = "done"
             /\ Invocations = 0
             /\ req = NoReq
             /\ out.err.msg =
                    "message " \o Itoa(FirstBad + InlineCount) \o ": " \o
                    (IF LacksRole(call.messages[FirstBad]) THEN "role is required"
                     ELSE "at least one of text, image, image_file, or image_url is required")

\* an inline text and two records were sent as three messages in that order
C29_Witness ==
    /\ ChatOnRecords
    /\ call.text = "hi"
    /\ Len(call.messages) = 2
    /\ Invocations = 1
    /\ req.messages = <<[role |-> "user", content |-> "hi", parts |-> <<>>],
                        [role |-> "system", content |-> "yo", parts |-> <<>>],
                        [role |-> "user", content |-> "hi", parts |-> <<>>]>>

\* an inline text, a good record and a record without a role: the error names
\* message 3
C29_WitnessBad ==
    /\ ChatOnRecords
    /\ call.text = "hi"
    /\ BadPositions = {2}
    /\ pc = "done"
    /\ out.err.msg = "message 3: role is required"

-----------------------------------------------------------------------------
(* Properties of the ckv cache after a reset *)

\* a reset call has returned without an error
ResetDone ==
    /\ binding = "ckv"
    /\ pc = "done"
    /\ call.op = "reset"
    /\ call.decodeOK
    /\ out.err = NilErr

\* C25: after a successful reset the cache holds no client for the store that
\* was reset, whether the script named the store or left the name out or
\* empty for the default store.
C25_ResetDropsClient ==
    ResetDone => EffectiveName(call.name) \notin DOMAIN dbs

\* after a successful reset of a store the script named, the cache holds no
\* client for it
ResetNamedDropsClient ==
    (ResetDone /\ call.name # "") => call.name \notin DOMAIN dbs

-----------------------------------------------------------------------------
(* Properties of chat and draw at the edges of their inputs and answers *)

\* some invocation of the call was answered without an error
SomeSuccess == \E n \in 1..Invocations : trace[n] = NilErr

\* C26: whatever the retry argument, zero and negative values included, a
\* chat or draw call that has built its request and acquired its client
\* invokes the provider at least once before it returns; it returns a result
\* without an error, allow_error being false, only after an invocation that
\* succeeded, and it does not fault without an invocation.
C26_RetryAtLeastOnce ==
    (LLMCall /\ req # NoReq /\ pc = "done") =>
        /\ Invocations >= 1
        /\ (~call.allow_error /\ out.err = NilErr /\ ~out.panic) => SomeSuccess
        /\ out.panic => Invocations >= 1

\* the same for the calls whose retry argument is positive or left out
RetryPositiveAtLeastOnce ==
    (LLMCall /\ req # NoReq /\ pc = "done" /\ call.retry >= 1) =>
        /\ Invocations >= 1
        /\ (~call.allow_error /\ out.err = NilErr /\ ~out.panic) => SomeSuccess

\* C27: a draw without full_response whose provider answered without an
\* error and without an image returns None or an empty list, for every n,
\* n = 1 included; no draw call that the provider answered faults on an index
\* into an empty data list.
C27_DrawNoImages ==
    /\ (Succeeded("draw") /\ ~call.full_response /\ Len(resp) = 0) =>
            /\ ~out.panic
            /\ out.err = NilErr
            /\ out.val \in {None, StarList(<<>>)}
    /\ (pc = "done" /\ call.op = "draw" /\ Invocations > 0) => ~out.panic

\* the same for the draw calls that ask for more than one image and are
\* answered
DrawManyNoImages ==
    (Succeeded("draw") /\ ~call.full_response /\ Len(resp) = 0 /\ call.n # 1) =>
        out = [val |-> StarList(<<>>), err |-> NilErr, panic |-> FALSE]

-----------------------------------------------------------------------------
(* Properties of listdir *)

\* how far a path lies below d
Depth(p) ==
    CASE p = "d" -> 0
      [] p \in {"d/a", "d/b"} -> 1
      [] p = "d/a/x" -> 2
      [] p = "d/a/x/y" -> 3

\* a listdir call has returned its list
Listed ==
    /\ binding = "cfs"
    /\ pc = "done"
    /\ call.op = "listdir"
    /\ call.decodeOK
    /\ out.err = NilErr

ListedPaths == {out.val.items[i].str : i \in 1..Len(out.val.items)}

\* C30: a listdir with recursive=false returns no path more than one level
\* below the given path, for every file system and every filter; a path
\* the filter returns False for is not in the result, and no result holds a
\* path on which the filter does not return a boolean or raises.
C30_ListDirShallow ==
    Listed =>
        /\ ~call.recursive => \A p \in ListedPaths : Depth(p) <= 1
        /\ call.filter_given => \A p \in ListedPaths : call.filter[p] = "True"

\* the same for the calls without a filter, and the filter's part for all
ListDirNoFilterShallow ==
    Listed =>
        /\ (~call.recursive /\ ~call.filter_given) =>
               ListedPaths = {p \in call.tree : Depth(p) <= 1}
        /\ (call.recursive /\ ~call.filter_given) => ListedPaths = call.tree
        /\ call.filter_given => \A p \in ListedPaths : call.filter[p] = "True"

====
